---- MODULE Spec2Model ----
(***************************************************************************)
(* Model of the untyped-value normalization engine of gosok                *)
(* (src/common/parse.go, src/common/constants.go): ParseString, ParseInt,  *)
(* ParseFloat64, ParseFloat64Round, ParseBool and ParseTime.               *)
(*                                                                         *)
(* Text is a TLA+ string.  A 64-bit integer is a record                    *)
(* [neg |-> BOOLEAN, mag |-> decimal digits without leading zeros]; all    *)
(* arithmetic on it is decimal long arithmetic, so the 10^12 / 10^15 /     *)
(* 10^18 thresholds and the int64 range keep their real values.  An        *)
(* instant is [sec |-> seconds since the Unix epoch, nsec |-> 0..10^9-1],  *)
(* the absolute time a time.Time denotes (its Location is not modelled).   *)
(***************************************************************************)
EXTENDS Integers, Sequences, FiniteSets, TLC

(***************************************************************************)
(* Characters and text                                                     *)
(***************************************************************************)
Digits == "0123456789"

UpperLetters == "ABCDEFGHIJKLMNOPQRSTUVWXYZ"

LowerLetters == "abcdefghijklmnopqrstuvwxyz"

At(s, i) == IF 1 <= i /\ i <= Len(s) THEN SubSeq(s, i, i) ELSE ""

From(s, i) == IF i > Len(s) THEN "" ELSE IF i <= 1 THEN s ELSE SubSeq(s, i, Len(s))

Upto(s, n) == IF n <= 0 THEN "" ELSE IF n >= Len(s) THEN s ELSE SubSeq(s, 1, n)

RECURSIVE IndexIn(_, _, _)
IndexIn(alphabet, c, i) ==
  IF i > Len(alphabet) THEN 0
  ELSE IF At(alphabet, i) = c THEN i
  ELSE IndexIn(alphabet, c, i + 1)

IsDigitChar(c) == Len(c) = 1 /\ IndexIn(Digits, c, 1) > 0

\* time.isDigit(s, i): i is 0-based as in the source
isDigit(s, i) == IsDigitChar(At(s, i + 1))

DigitVal(c) == IndexIn(Digits, c, 1) - 1

DigitChar(d) == At(Digits, d + 1)

RECURSIVE AllDigits(_)
AllDigits(s) == s = "" \/ (IsDigitChar(At(s, 1)) /\ AllDigits(From(s, 2)))

HasPrefix(s, p) == Len(s) >= Len(p) /\ Upto(s, Len(p)) = p

RECURSIVE TrimLeft(_)
TrimLeft(s) == IF s # "" /\ At(s, 1) = " " THEN TrimLeft(From(s, 2)) ELSE s

RECURSIVE TrimRight(_)
TrimRight(s) ==
  IF s # "" /\ At(s, Len(s)) = " " THEN TrimRight(Upto(s, Len(s) - 1)) ELSE s

\* strings.TrimSpace; the space is the only white space of the modelled texts
TrimSpace(s) == TrimRight(TrimLeft(s))

LowerChar(c) ==
  LET i == IndexIn(UpperLetters, c, 1) IN IF i > 0 THEN At(LowerLetters, i) ELSE c

RECURSIVE ToLower(_)
ToLower(s) == IF s = "" THEN "" ELSE LowerChar(At(s, 1)) \o ToLower(From(s, 2))

RECURSIVE Zeros(_)
Zeros(n) == IF n <= 0 THEN "" ELSE "0" \o Zeros(n - 1)

(***************************************************************************)
(* 64-bit integers in decimal long arithmetic                              *)
(***************************************************************************)
RECURSIVE StripZeros(_)
StripZeros(m) == IF Len(m) > 1 /\ At(m, 1) = "0" THEN StripZeros(From(m, 2)) ELSE m

BigNorm(neg, n) == [neg |-> neg /\ n # "0", mag |-> n]

Big(neg, m) == BigNorm(neg, StripZeros(IF m = "" THEN "0" ELSE m))

BigZero == Big(FALSE, "0")

RECURSIVE LexCmp(_, _)
LexCmp(a, b) ==
  IF a = "" THEN 0
  ELSE IF At(a, 1) # At(b, 1) THEN (IF DigitVal(At(a, 1)) < DigitVal(At(b, 1)) THEN -1 ELSE 1)
  ELSE LexCmp(From(a, 2), From(b, 2))

\* -1, 0, 1 as a < b, a = b, a > b for magnitudes without leading zeros
MagCmp(a, b) ==
  IF Len(a) < Len(b) THEN -1 ELSE IF Len(a) > Len(b) THEN 1 ELSE LexCmp(a, b)

LastDigit(a) == IF a = "" THEN 0 ELSE DigitVal(At(a, Len(a)))

RECURSIVE MagAddC(_, _, _)
AddStep(a, b, s) == MagAddC(Upto(a, Len(a) - 1), Upto(b, Len(b) - 1), s \div 10) \o DigitChar(s % 10)

MagAddC(a, b, carry) ==
  IF a = "" /\ b = "" THEN (IF carry = 0 THEN "" ELSE DigitChar(carry))
  ELSE AddStep(a, b, LastDigit(a) + LastDigit(b) + carry)

MagAdd(a, b) == StripZeros(MagAddC(a, b, 0))

\* a - b for a >= b
RECURSIVE MagSubB(_, _, _)
SubStep(a, b, d) ==
  MagSubB(Upto(a, Len(a) - 1), Upto(b, Len(b) - 1), IF d < 0 THEN 1 ELSE 0)
    \o DigitChar(IF d < 0 THEN d + 10 ELSE d)

MagSubB(a, b, borrow) ==
  IF a = "" THEN "" ELSE SubStep(a, b, LastDigit(a) - LastDigit(b) - borrow)

MagSub(a, b) == StripZeros(MagSubB(a, b, 0))

BigAdd(x, y) ==
  IF x.neg = y.neg THEN Big(x.neg, MagAdd(x.mag, y.mag))
  ELSE IF MagCmp(x.mag, y.mag) >= 0 THEN Big(x.neg, MagSub(x.mag, y.mag))
  ELSE Big(y.neg, MagSub(y.mag, x.mag))

BigSub(x, y) == BigAdd(x, Big(~y.neg, y.mag))

BigCmp(x, y) ==
  IF x.neg /\ ~y.neg THEN -1
  ELSE IF ~x.neg /\ y.neg THEN 1
  ELSE IF x.neg THEN MagCmp(y.mag, x.mag)
  ELSE MagCmp(x.mag, y.mag)

BigGt(x, y) == BigCmp(x, y) > 0

RECURSIVE NatDigits(_)
NatDigits(n) == IF n < 10 THEN DigitChar(n) ELSE NatDigits(n \div 10) \o DigitChar(n % 10)

\* a TLC-sized integer as a 64-bit integer
BigOf(n) == IF n < 0 THEN Big(TRUE, NatDigits(-n)) ELSE Big(FALSE, NatDigits(n))

RECURSIVE DigitsNat(_)
DigitsNat(m) ==
  IF m = "" THEN 0 ELSE DigitsNat(Upto(m, Len(m) - 1)) * 10 + DigitVal(At(m, Len(m)))

\* 10^k
BigPow10(k) == Big(FALSE, "1" \o Zeros(k))

\* x / 10^k, truncated toward zero as Go's integer division
BigQuoPow10(x, k) == Big(x.neg, Upto(x.mag, Len(x.mag) - k))

\* x % 10^k with the sign of x as Go's remainder; k <= 9, so it is a small integer
BigRemPow10(x, k) ==
  (IF x.neg THEN -1 ELSE 1) * DigitsNat(From(x.mag, Len(x.mag) - k + 1))

RECURSIVE MagMulC(_, _, _)
MulStep(a, m, q) == MagMulC(Upto(a, Len(a) - 1), m, q \div 10) \o DigitChar(q % 10)

MagMulC(a, m, carry) ==
  IF a = "" THEN (IF carry = 0 THEN "" ELSE NatDigits(carry))
  ELSE MulStep(a, m, LastDigit(a) * m + carry)

\* x * m for 0 <= m < 10^8
BigMulSmall(x, m) == Big(x.neg, MagMulC(x.mag, m, 0))

MaxInt64 == Big(FALSE, "9223372036854775807")

MinInt64 == Big(TRUE, "9223372036854775808")

Two64 == Big(FALSE, "18446744073709551616")

InInt64(x) == ~BigGt(MinInt64, x) /\ ~BigGt(x, MaxInt64)

\* the value of an integer of at most 65 bits reduced to int64 (two's complement)
Wrap64(x) ==
  IF BigGt(x, MaxInt64) THEN BigSub(x, Two64)
  ELSE IF BigGt(MinInt64, x) THEN BigAdd(x, Two64)
  ELSE x

(***************************************************************************)
(* strconv                                                                 *)
(***************************************************************************)
\* strconv.ParseInt(s, 10, 64): an optional sign, then one or more digits and nothing
\* else; a value outside the int64 range is an error (ErrRange)
ParseIntOf(body, val) ==
  IF body # "" /\ AllDigits(body) /\ InInt64(val)
  THEN [ok |-> TRUE, val |-> val]
  ELSE [ok |-> FALSE, val |-> BigZero]

Unsigned(s) == IF At(s, 1) \in {"+", "-"} THEN From(s, 2) ELSE s

ParseIntText(s) == ParseIntOf(Unsigned(s), Big(At(s, 1) = "-", Unsigned(s)))

\* strconv.FormatInt(v, 10) and strconv.FormatUint(v, 10)
FormatInt(x) == IF x.neg THEN "-" \o x.mag ELSE x.mag

RECURSIVE StripTrailingZeros(_)
StripTrailingZeros(f) ==
  IF f # "" /\ At(f, Len(f)) = "0" THEN StripTrailingZeros(Upto(f, Len(f) - 1)) ELSE f

\* A floating-point value is the decimal [neg, ip, fp] = (-1)^neg * ip.fp it is
\* nearest to; a decimal of at most 15 significant digits names exactly one float64.
Float(neg, ip, fp) ==
  [neg |-> neg, ip |-> StripZeros(IF ip = "" THEN "0" ELSE ip), fp |-> StripTrailingZeros(fp)]

FloatZero == Float(FALSE, "0", "")

FloatIsZero(f) == f.ip = "0" /\ f.fp = ""

\* strconv.ParseFloat(s, 64) on plain decimals: an optional sign, digits with at most
\* one point, at least one digit.  (Exponents, hexadecimal mantissas, "inf" and "nan"
\* are accepted by Go as well and are not part of the modelled inputs.)
ParseFloatOf(neg, ip, fp) ==
  IF AllDigits(ip) /\ AllDigits(fp) /\ Len(ip) + Len(fp) > 0
  THEN [ok |-> TRUE, val |-> Float(neg, ip, fp)]
  ELSE [ok |-> FALSE, val |-> FloatZero]

ParseFloatAt(neg, body, dot) ==
  ParseFloatOf(neg, IF dot = 0 THEN body ELSE Upto(body, dot - 1),
               IF dot = 0 THEN "" ELSE From(body, dot + 1))

ParseFloatBody(neg, body) == ParseFloatAt(neg, body, IndexIn(body, ".", 1))

ParseFloatText(s) == ParseFloatBody(At(s, 1) = "-", Unsigned(s))

\* a variant of the rendering with two decimals, as the verb %.2f gives (truncated)
FormatFloatTwoPlaces(f) ==
  (IF f.neg THEN "-" ELSE "") \o f.ip \o "." \o Upto(f.fp \o "00", 2)

\* strconv.FormatFloat(f, 'f', -1, 64): shortest decimal that round-trips, no exponent
FormatFloat(f) ==
  (IF f.neg THEN "-" ELSE "") \o f.ip \o (IF f.fp = "" THEN "" ELSE "." \o f.fp)

\* a variant of the conversion that rounds toward minus infinity
FloatFloor(f) ==
  IF f.neg /\ f.fp # "" THEN Big(TRUE, MagAdd(f.ip, "1")) ELSE Big(f.neg, f.ip)

\* int64(f): the integer part, truncated toward zero
FloatTrunc(f) == Big(f.neg, f.ip)

\* int64((f - float64(int64(f))) * 1e9): the fraction f - trunc(f) scaled to
\* nanoseconds, with the sign of f.  The subtraction and the product are exact when
\* the fraction is a multiple of 2^-9 and |f| < 2^44, which the modelled floats are,
\* but for 2.341, 2.345, 2.349 and 3.14, where the float64 result is the same
\* (0.3450000000000002 * 1e9 = 345000000.0000002, truncated to 345000000).
FloatFracNanos(f) ==
  (IF f.neg THEN -1 ELSE 1) * DigitsNat(Upto(f.fp \o Zeros(9), 9))

(***************************************************************************)
(* package time: instants                                                  *)
(***************************************************************************)
Instant(sec, nsec) == [sec |-> sec, nsec |-> nsec]

\* time.Time{}: January 1, year 1, 00:00:00 UTC
ZeroTime == Instant(Big(TRUE, "62135596800"), 0)

\* Time.IsZero
IsZero(t) == t = ZeroTime

UnixNorm(sec, r) ==
  IF r < 0 THEN Instant(Wrap64(BigSub(sec, BigOf(1))), r + 1000000000) ELSE Instant(sec, r)

\* time.Unix(sec, nsec): nsec outside [0, 1e9) is carried into sec
Unix(sec, nsec) == UnixNorm(Wrap64(BigAdd(sec, BigQuoPow10(nsec, 9))), BigRemPow10(nsec, 9))

(***************************************************************************)
(* package time: layouts (time.Parse as called at parse.go:416 and :439)    *)
(***************************************************************************)
Chunk(prefix, std, n, suffix) == [prefix |-> prefix, std |-> std, n |-> n, suffix |-> suffix]

startsWithLowerCase(s) == s # "" /\ IndexIn(LowerLetters, At(s, 1), 1) > 0

RECURSIVE RunLen(_, _, _)
\* number of consecutive characters ch of s from position i (1-based)
RunLen(s, i, ch) == IF At(s, i) = ch THEN 1 + RunLen(s, i + 1, ch) ELSE 0

std0x == <<"stdZeroMonth", "stdZeroDay", "stdZeroHour12", "stdZeroMinute", "stdZeroSecond", "stdYear">>

RECURSIVE ChunkAt(_, _)
Hit(layout, i, std, len) == Chunk(Upto(layout, i - 1), std, 0, From(layout, i + len))

\* the layout element at position i (1-based) whose first characters are c and c2 and
\* whose text is rest, if there is one there; the next one otherwise
chunkOf(layout, i, c, c2, rest, run) ==
  IF c = "J" /\ HasPrefix(rest, "January") THEN Hit(layout, i, "stdLongMonth", 7)
  ELSE IF c = "J" /\ HasPrefix(rest, "Jan") /\ ~startsWithLowerCase(From(rest, 4))
    THEN Hit(layout, i, "stdMonth", 3)
  ELSE IF c = "M" /\ HasPrefix(rest, "Monday") THEN Hit(layout, i, "stdLongWeekDay", 6)
  ELSE IF c = "M" /\ HasPrefix(rest, "Mon") /\ ~startsWithLowerCase(From(rest, 4))
    THEN Hit(layout, i, "stdWeekDay", 3)
  ELSE IF c = "M" /\ HasPrefix(rest, "MST") THEN Hit(layout, i, "stdTZ", 3)
  ELSE IF c = "0" /\ c2 \in {"1", "2", "3", "4", "5", "6"} THEN Hit(layout, i, std0x[DigitVal(c2)], 2)
  ELSE IF c = "0" /\ HasPrefix(rest, "002") THEN Hit(layout, i, "stdZeroYearDay", 3)
  ELSE IF c = "1" THEN Hit(layout, i, IF c2 = "5" THEN "stdHour" ELSE "stdNumMonth",
                           IF c2 = "5" THEN 2 ELSE 1)
  ELSE IF c = "2" THEN Hit(layout, i, IF HasPrefix(rest, "2006") THEN "stdLongYear" ELSE "stdDay",
                           IF HasPrefix(rest, "2006") THEN 4 ELSE 1)
  ELSE IF c = "_" /\ HasPrefix(rest, "_2006")
    \* a literal _ followed by the year
    THEN Chunk(Upto(layout, i), "stdLongYear", 0, From(layout, i + 5))
  ELSE IF c = "_" /\ c2 = "2" THEN Hit(layout, i, "stdUnderDay", 2)
  ELSE IF c = "_" /\ HasPrefix(rest, "__2") THEN Hit(layout, i, "stdUnderYearDay", 3)
  ELSE IF c \in {"3", "4", "5"}
    THEN Hit(layout, i, IF c = "3" THEN "stdHour12" ELSE IF c = "4" THEN "stdMinute" ELSE "stdSecond", 1)
  ELSE IF c = "P" /\ c2 = "M" THEN Hit(layout, i, "stdPM", 2)
  ELSE IF c = "p" /\ c2 = "m" THEN Hit(layout, i, "stdpm", 2)
  ELSE IF c = "-" /\ HasPrefix(rest, "-070000") THEN Hit(layout, i, "stdNumSecondsTz", 7)
  ELSE IF c = "-" /\ HasPrefix(rest, "-07:00:00") THEN Hit(layout, i, "stdNumColonSecondsTZ", 9)
  ELSE IF c = "-" /\ HasPrefix(rest, "-0700") THEN Hit(layout, i, "stdNumTZ", 5)
  ELSE IF c = "-" /\ HasPrefix(rest, "-07:00") THEN Hit(layout, i, "stdNumColonTZ", 6)
  ELSE IF c = "-" /\ HasPrefix(rest, "-07") THEN Hit(layout, i, "stdNumShortTZ", 3)
  ELSE IF c = "Z" /\ HasPrefix(rest, "Z070000") THEN Hit(layout, i, "stdISO8601SecondsTZ", 7)
  ELSE IF c = "Z" /\ HasPrefix(rest, "Z07:00:00") THEN Hit(layout, i, "stdISO8601ColonSecondsTZ", 9)
  ELSE IF c = "Z" /\ HasPrefix(rest, "Z0700") THEN Hit(layout, i, "stdISO8601TZ", 5)
  ELSE IF c = "Z" /\ HasPrefix(rest, "Z07:00") THEN Hit(layout, i, "stdISO8601ColonTZ", 6)
  ELSE IF c = "Z" /\ HasPrefix(rest, "Z07") THEN Hit(layout, i, "stdISO8601ShortTZ", 3)
  ELSE IF (c = "." \/ c = ",") /\ (c2 = "0" \/ c2 = "9") /\ ~isDigit(layout, i + run)
    \* a run of 0s or 9s that ends the digits: a fractional second
    THEN Chunk(Upto(layout, i - 1), IF c2 = "0" THEN "stdFracSecond0" ELSE "stdFracSecond9",
               run, From(layout, i + 1 + run))
  ELSE ChunkAt(layout, i + 1)

\* time.nextStdChunk: the first layout element at or after position i (1-based)
ChunkAt(layout, i) ==
  IF i > Len(layout) THEN Chunk(layout, "", 0, "")
  ELSE chunkOf(layout, i, At(layout, i), At(layout, i + 1), From(layout, i),
               RunLen(layout, i + 1, At(layout, i + 1)))

nextStdChunk(layout) == ChunkAt(layout, 1)

RECURSIVE cutspace(_)
cutspace(s) == IF At(s, 1) = " " THEN cutspace(From(s, 2)) ELSE s

RECURSIVE skip(_, _)
\* time.skip: value with the literal text prefix removed; a space of the layout
\* stands for any number of spaces
skip(value, prefix) ==
  IF prefix = "" THEN [ok |-> TRUE, value |-> value]
  ELSE IF At(prefix, 1) = " "
    THEN IF value # "" /\ At(value, 1) # " " THEN [ok |-> FALSE, value |-> value]
         ELSE skip(cutspace(value), cutspace(prefix))
  ELSE IF value = "" \/ At(value, 1) # At(prefix, 1) THEN [ok |-> FALSE, value |-> value]
  ELSE skip(From(value, 2), From(prefix, 2))

\* time.getnum: one or two digits, exactly two when fixed
getnum(s, fixed) ==
  IF ~isDigit(s, 0) THEN [ok |-> FALSE, n |-> 0, value |-> s]
  ELSE IF ~isDigit(s, 1)
    THEN IF fixed THEN [ok |-> FALSE, n |-> 0, value |-> s]
         ELSE [ok |-> TRUE, n |-> DigitVal(At(s, 1)), value |-> From(s, 2)]
  ELSE [ok |-> TRUE, n |-> DigitsNat(Upto(s, 2)), value |-> From(s, 3)]

atoiOf(neg, body) ==
  IF AllDigits(body) THEN [ok |-> TRUE, n |-> (IF neg THEN -1 ELSE 1) * DigitsNat(body)]
  ELSE [ok |-> FALSE, n |-> 0]

\* time.atoi on at most nine characters: an optional sign and digits only
atoi(s) == atoiOf(At(s, 1) = "-", Unsigned(s))

shortMonthNames == <<"Jan", "Feb", "Mar", "Apr", "May", "Jun", "Jul", "Aug", "Sep", "Oct", "Nov", "Dec">>

longMonthNames ==
  <<"January", "February", "March", "April", "May", "June", "July", "August",
    "September", "October", "November", "December">>

shortDayNames == <<"Sun", "Mon", "Tue", "Wed", "Thu", "Fri", "Sat">>

longDayNames == <<"Sunday", "Monday", "Tuesday", "Wednesday", "Thursday", "Friday", "Saturday">>

RECURSIVE lookupFrom(_, _, _)
\* time.lookup: the first name of tab that val starts with, ignoring case
lookupFrom(tab, val, i) ==
  IF i > Len(tab) THEN [ok |-> FALSE, n |-> -1, value |-> val]
  ELSE IF Len(val) >= Len(tab[i]) /\ ToLower(Upto(val, Len(tab[i]))) = ToLower(tab[i])
    THEN [ok |-> TRUE, n |-> i - 1, value |-> From(val, Len(tab[i]) + 1)]
  ELSE lookupFrom(tab, val, i + 1)

lookup(tab, val) == lookupFrom(tab, val, 1)

commaOrPeriod(c) == c = "." \/ c = ","

nanosOf(sepOk, a, nb) ==
  IF ~sepOk \/ ~a.ok \/ a.n < 0 THEN [ok |-> FALSE, n |-> 0]
  ELSE [ok |-> TRUE, n |-> DigitsNat(NatDigits(a.n) \o Zeros(10 - nb))]

nanosAt(value, nb) == nanosOf(commaOrPeriod(At(value, 1)), atoi(SubSeq(value, 2, nb)), nb)

\* time.parseNanoseconds(value, nbytes): value[0] is the separator, value[1:nbytes]
\* the digits, scaled to nine places
parseNanoseconds(value, nbytes) == nanosAt(value, IF nbytes > 10 THEN 10 ELSE nbytes)

RECURSIVE upperRun(_, _)
upperRun(s, i) ==
  IF i <= 6 /\ IndexIn(UpperLetters, At(s, i), 1) > 0 THEN 1 + upperRun(s, i + 1) ELSE 0

zoneLen(value, nUpper) ==
  IF Len(value) < 3 THEN 0
  ELSE IF HasPrefix(value, "ChST") \/ HasPrefix(value, "MeST") THEN 4
  ELSE IF HasPrefix(value, "GMT") THEN 3
  ELSE IF nUpper = 5 /\ At(value, 5) = "T" THEN 5
  ELSE IF nUpper = 4 /\ (At(value, 4) = "T" \/ HasPrefix(value, "WITA")) THEN 4
  ELSE IF nUpper = 3 THEN 3
  ELSE 0

\* time.parseTimeZone: the length of the zone abbreviation value starts with, 0 if
\* none.  (Signed "+07" names and "GMT+7" are not part of the modelled inputs.)
parseTimeZone(value) == zoneLen(value, upperRun(value, 1))

isLeap(year) == year % 4 = 0 /\ (year % 100 # 0 \/ year % 400 = 0)

\* time.daysIn
daysIn(month, year) ==
  IF month = 2 THEN (IF isLeap(year) THEN 29 ELSE 28)
  ELSE IF month \in {4, 6, 9, 11} THEN 30
  ELSE 31

RECURSIVE daysBefore(_, _)
\* days of the year before the first of month
daysBefore(month, year) ==
  IF month <= 1 THEN 0 ELSE daysBefore(month - 1, year) + daysIn(month - 1, year)

daysOfYears(y) == 365 * y + (y \div 4) - (y \div 100) + (y \div 400)

\* days from 1970-01-01 to the given civil date (proleptic Gregorian calendar)
daysSinceEpoch(year, month, day) ==
  daysOfYears(year - 1) + daysBefore(month, year) + (day - 1) - 719162

\* time.Date(year, month, day, hour, min, sec, nsec, UTC) moved by -offset seconds
Date(year, month, day, hour, min, sec, nsec, offset) ==
  Instant(BigAdd(BigMulSmall(BigOf(daysSinceEpoch(year, month, day)), 86400),
                 BigOf(hour * 3600 + min * 60 + sec - offset)),
          nsec)

\* the fields time.Parse collects
ParseStart ==
  [year |-> 0, month |-> -1, day |-> -1, hour |-> 0, min |-> 0, sec |-> 0, nsec |-> 0,
   amSet |-> FALSE, pmSet |-> FALSE, zUTC |-> FALSE, zoneOffset |-> -1, zoneName |-> ""]

Bad(value, st) == [ok |-> FALSE, value |-> value, st |-> st]

Good(value, st) == [ok |-> TRUE, value |-> value, st |-> st]

offsetOf(need, sepOk, hh, mm, ss, value, st) ==
  IF Len(value) < need \/ ~sepOk THEN Bad(value, st)
  ELSE IF ~hh.ok \/ ~mm.ok \/ ~ss.ok \/ hh.n > 24 \/ mm.n > 60 \/ ss.n > 60 THEN Bad(value, st)
  ELSE IF At(value, 1) = "+"
    THEN Good(From(value, need + 1), [st EXCEPT !.zoneOffset = (hh.n * 60 + mm.n) * 60 + ss.n])
  ELSE IF At(value, 1) = "-"
    THEN Good(From(value, need + 1), [st EXCEPT !.zoneOffset = -((hh.n * 60 + mm.n) * 60 + ss.n)])
  ELSE Bad(value, st)

\* the two characters of value from position i (1-based), "" if value is too short
Two(value, i) == IF Len(value) > i THEN SubSeq(value, i, i + 1) ELSE ""

\* a numeric zone offset of the shape of std: sign, hh, mm and ss
parseOffset(std, value, st) ==
  IF std \in {"stdISO8601ColonTZ", "stdNumColonTZ"}
    THEN offsetOf(6, At(value, 4) = ":", getnum(Two(value, 2), TRUE), getnum(Two(value, 5), TRUE),
                  getnum("00", TRUE), value, st)
  ELSE IF std \in {"stdISO8601ShortTZ", "stdNumShortTZ"}
    THEN offsetOf(3, TRUE, getnum(Two(value, 2), TRUE), getnum("00", TRUE), getnum("00", TRUE),
                  value, st)
  ELSE IF std \in {"stdISO8601ColonSecondsTZ", "stdNumColonSecondsTZ"}
    THEN offsetOf(9, At(value, 4) = ":" /\ At(value, 7) = ":", getnum(Two(value, 2), TRUE),
                  getnum(Two(value, 5), TRUE), getnum(Two(value, 8), TRUE), value, st)
  ELSE IF std \in {"stdISO8601SecondsTZ", "stdNumSecondsTz"}
    THEN offsetOf(7, TRUE, getnum(Two(value, 2), TRUE), getnum(Two(value, 4), TRUE),
                  getnum(Two(value, 6), TRUE), value, st)
  ELSE offsetOf(5, TRUE, getnum(Two(value, 2), TRUE), getnum(Two(value, 4), TRUE),
                getnum("00", TRUE), value, st)

RECURSIVE RunLenDigits(_, _)
\* number of consecutive digits of s from position i (1-based)
RunLenDigits(s, i) == IF IsDigitChar(At(s, i)) THEN 1 + RunLenDigits(s, i + 1) ELSE 0

\* the length of a fraction at the head of value, separator included
fracLen(value) == 1 + RunLenDigits(value, 2)

\* g is a number read by getnum: store it in field if it is within lo..hi
setField(g, lo, hi, field, value, st) ==
  IF g.ok /\ lo <= g.n /\ g.n <= hi THEN Good(g.value, [st EXCEPT ![field] = g.n])
  ELSE Bad(value, st)

setYear2(a, value, st) ==
  IF Len(value) < 2 \/ ~a.ok THEN Bad(value, st)
  ELSE Good(From(value, 3), [st EXCEPT !.year = IF a.n >= 69 THEN a.n + 1900 ELSE a.n + 2000])

setYear4(a, value, st) ==
  IF Len(value) < 4 \/ ~isDigit(value, 0) \/ ~a.ok THEN Bad(value, st)
  ELSE Good(From(value, 5), [st EXCEPT !.year = a.n])

setMonthName(l, value, st) ==
  IF l.ok THEN Good(l.value, [st EXCEPT !.month = l.n + 1]) ELSE Bad(value, st)

skipName(l, value, st) == IF l.ok THEN Good(l.value, st) ELSE Bad(value, st)

\* any one- or two-digit day; the date is validated at the end
setDay(g, value, st) == IF g.ok THEN Good(g.value, [st EXCEPT !.day = g.n]) ELSE Bad(value, st)

setNanos(ns, rest, value, st) ==
  IF ns.ok THEN Good(rest, [st EXCEPT !.nsec = ns.n]) ELSE Bad(value, st)

\* the seconds g, and a fractional second of the input that the layout does not
\* announce (nxt is the layout element that follows)
setSecond(g, nxt, value, st) ==
  IF ~g.ok \/ g.n > 59 THEN Bad(value, st)
  ELSE IF Len(g.value) >= 2 /\ commaOrPeriod(At(g.value, 1)) /\ isDigit(g.value, 1)
          /\ nxt \notin {"stdFracSecond0", "stdFracSecond9"}
    THEN setNanos(parseNanoseconds(g.value, fracLen(g.value)),
                  From(g.value, fracLen(g.value) + 1), value, [st EXCEPT !.sec = g.n])
  ELSE Good(g.value, [st EXCEPT !.sec = g.n])

setAmPm(p, am, pm, value, st) ==
  IF p = pm THEN Good(From(value, 3), [st EXCEPT !.pmSet = TRUE])
  ELSE IF p = am THEN Good(From(value, 3), [st EXCEPT !.amSet = TRUE])
  ELSE Bad(value, st)

setZoneName(k, value, st) ==
  IF HasPrefix(value, "UTC") THEN Good(From(value, 4), [st EXCEPT !.zUTC = TRUE])
  ELSE IF k = 0 THEN Bad(value, st)
  ELSE Good(From(value, k + 1), [st EXCEPT !.zoneName = Upto(value, k)])

\* one layout element of time.Parse: the value left and the fields after reading the
\* element std (with n fraction digits) from value; layout is what follows std
parseStd(std, n, value, layout, st) ==
  CASE std = "stdYear" -> setYear2(atoi(Upto(value, 2)), value, st)
    [] std = "stdLongYear" -> setYear4(atoi(Upto(value, 4)), value, st)
    [] std = "stdMonth" -> setMonthName(lookup(shortMonthNames, value), value, st)
    [] std = "stdLongMonth" -> setMonthName(lookup(longMonthNames, value), value, st)
    [] std \in {"stdNumMonth", "stdZeroMonth"} ->
         setField(getnum(value, std = "stdZeroMonth"), 1, 12, "month", value, st)
    [] std = "stdWeekDay" -> skipName(lookup(shortDayNames, value), value, st)
    [] std = "stdLongWeekDay" -> skipName(lookup(longDayNames, value), value, st)
    [] std \in {"stdDay", "stdUnderDay", "stdZeroDay"} ->
         setDay(getnum(IF std = "stdUnderDay" /\ At(value, 1) = " " THEN From(value, 2) ELSE value,
                       std = "stdZeroDay"),
                value, st)
    [] std = "stdHour" -> setField(getnum(value, FALSE), 0, 23, "hour", value, st)
    [] std \in {"stdHour12", "stdZeroHour12"} ->
         setField(getnum(value, std = "stdZeroHour12"), 0, 12, "hour", value, st)
    [] std \in {"stdMinute", "stdZeroMinute"} ->
         setField(getnum(value, std = "stdZeroMinute"), 0, 59, "min", value, st)
    [] std \in {"stdSecond", "stdZeroSecond"} ->
         setSecond(getnum(value, std = "stdZeroSecond"), nextStdChunk(layout).std, value, st)
    [] std = "stdPM" -> setAmPm(Upto(value, 2), "AM", "PM", value, st)
    [] std = "stdpm" -> setAmPm(Upto(value, 2), "am", "pm", value, st)
    [] std \in {"stdISO8601TZ", "stdISO8601ShortTZ", "stdISO8601ColonTZ",
                "stdISO8601SecondsTZ", "stdISO8601ColonSecondsTZ",
                "stdNumTZ", "stdNumShortTZ", "stdNumColonTZ", "stdNumSecondsTz",
                "stdNumColonSecondsTZ"} ->
         IF std \in {"stdISO8601TZ", "stdISO8601ShortTZ", "stdISO8601ColonTZ"} /\ At(value, 1) = "Z"
           THEN Good(From(value, 2), [st EXCEPT !.zUTC = TRUE])
         ELSE parseOffset(std, value, st)
    [] std = "stdTZ" -> setZoneName(parseTimeZone(value), value, st)
    [] std = "stdFracSecond0" ->
         \* exactly the number of digits of the layout
         IF Len(value) < 1 + n THEN Bad(value, st)
         ELSE setNanos(parseNanoseconds(value, 1 + n), From(value, n + 2), value, st)
    [] std = "stdFracSecond9" ->
         \* any number of digits, or none
         IF Len(value) < 2 \/ ~commaOrPeriod(At(value, 1)) \/ ~isDigit(value, 1)
           THEN Good(value, st)
         ELSE setNanos(parseNanoseconds(value, fracLen(value)), From(value, fracLen(value) + 1),
                       value, st)
    [] OTHER -> Bad(value, st)

finishDate(year, month, day, hour, min, sec, nsec, off) ==
  IF day < 1 \/ day > daysIn(month, year) THEN [ok |-> FALSE, t |-> ZeroTime]
  ELSE [ok |-> TRUE, t |-> Date(year, month, day, hour, min, sec, nsec, off)]

\* the end of time.Parse: the instant the collected fields denote.  UTC and "Z" win
\* over a numeric offset; an abbreviation the local zone does not know (the local
\* zone is taken to be UTC) gets offset 0.
parseFinish(st) ==
  finishDate(st.year,
             IF st.month < 0 THEN 1 ELSE st.month,
             IF st.day < 0 THEN 1 ELSE st.day,
             IF st.pmSet /\ st.hour < 12 THEN st.hour + 12
             ELSE IF st.amSet /\ st.hour = 12 THEN 0
             ELSE st.hour,
             st.min, st.sec, st.nsec,
             IF st.zUTC THEN 0 ELSE IF st.zoneOffset # -1 THEN st.zoneOffset ELSE 0)

RECURSIVE parseLoop(_, _, _)
loopStd(ch, r) ==
  IF ~r.ok THEN [ok |-> FALSE, t |-> ZeroTime] ELSE parseLoop(ch.suffix, r.value, r.st)

loopSkip(ch, sk, st) ==
  IF ~sk.ok THEN [ok |-> FALSE, t |-> ZeroTime]
  ELSE IF ch.std = ""
    THEN IF sk.value # "" THEN [ok |-> FALSE, t |-> ZeroTime] ELSE parseFinish(st)
  ELSE loopStd(ch, parseStd(ch.std, ch.n, sk.value, ch.suffix, st))

loopChunk(ch, value, st) == loopSkip(ch, skip(value, ch.prefix), st)

\* the loop of time.Parse: one layout element per iteration
parseLoop(layout, value, st) == loopChunk(nextStdChunk(layout), value, st)

\* time.Parse(layout, value): [ok |-> err == nil, t |-> the instant]
TimeParse(layout, value) == parseLoop(layout, value, ParseStart)

(***************************************************************************)
(* src/common/constants.go                                                 *)
(***************************************************************************)
TimeFormatRFC3339 == "2006-01-02T15:04:05Z07:00"

TimeFormatRFC3339Nano == "2006-01-02T15:04:05.999999999Z07:00"

TimeFormatRFC822 == "02 Jan 06 15:04 MST"

TimeFormatRFC822Z == "02 Jan 06 15:04 -0700"

TimeFormatRFC1123 == "Mon, 02 Jan 2006 15:04:05 MST"

TimeFormatRFC1123Z == "Mon, 02 Jan 2006 15:04:05 -0700"

TimeFormatDateTime == "2006-01-02 15:04:05"

TimeFormatDateTimeWithTZ == "2006-01-02 15:04:05 -0700"

TimeFormatDateTimeMilli == "2006-01-02 15:04:05.000"

TimeFormatDateTimeMicro == "2006-01-02 15:04:05.000000"

TimeFormatDateTimeNano == "2006-01-02 15:04:05.000000000"

TimeFormatDateTimeT == "2006-01-02T15:04:05"

TimeFormatDateTimeTMilli == "2006-01-02T15:04:05.000"

TimeFormatDateTimeTZ == "2006-01-02T15:04:05Z"

TimeFormatDateTimeTMilliZ == "2006-01-02T15:04:05.000Z"

TimeFormatDateTimeTOffset == "2006-01-02T15:04:05-07:00"

TimeFormatDateTimeTMicroZ == "2006-01-02T15:04:05.000000Z"

TimeFormatDateTimeTNanoZ == "2006-01-02T15:04:05.000000000Z"

TimeFormatDate == "2006-01-02"

TimeFormatDateSlash == "2006/01/02"

TimeFormatDateDot == "2006.01.02"

TimeFormatDateUS == "01/02/2006"

TimeFormatDateUSWithDash == "01-02-2006"

TimeFormatDateEU == "02/01/2006"

TimeFormatDateEUWithDash == "02-01-2006"

TimeFormatDateCompact == "20060102"

TimeFormatDateReadable == "02 Jan 2006"

TimeFormatDateLong == "January 2, 2006"

TimeFormatTime == "15:04:05"

TimeFormatTimeMilli == "15:04:05.000"

TimeFormatTimeMicro == "15:04:05.000000"

TimeFormatTimeShort == "15:04"

TimeFormatTime12Hour == "03:04:05 PM"

TimeFormatTime12 == "03:04 PM"

TimeFormatUnix == "unix"

TimeFormatUnixMilli == "unix-milli"

TimeFormatUnixMicro == "unix-micro"

TimeFormatUnixNano == "unix-nano"

\* the layouts of package time that parseTimeFromString appends to its table
timeRFC850 == "Monday, 02-Jan-06 15:04:05 MST"

timeANSIC == "Mon Jan _2 15:04:05 2006"

timeUnixDate == "Mon Jan _2 15:04:05 MST 2006"

timeRubyDate == "Mon Jan 02 15:04:05 -0700 2006"

(***************************************************************************)
(* Opaque input values                                                     *)
(*   kind  the dynamic type: "nil", "bool", the integer and float kinds,   *)
(*         "string", "time" (time.Time), "timeptr" (pointer to time.Time), *)
(*         "objectid" (bson.ObjectID), "stringer" (any other fmt.Stringer),*)
(*         "aggregate" (struct, map, slice, array without a String         *)
(*         method), "other"                                                *)
(*   b, i, f, t   the payload of a bool, an integer, a float, an instant   *)
(*   s     the text of a string; the Hex() of an ObjectID; of a float32,   *)
(*         the shortest decimal that identifies it among the 32-bit floats *)
(*         (what strconv.FormatFloat gives for bitSize 32)                 *)
(*   str   what String() returns, for a value that implements fmt.Stringer *)
(*   agg   the reflect.Kind is Struct, Map, Slice or Array                 *)
(*   json  what json.Marshal gives                                         *)
(*   p     what fmt.Sprintf("%v") prints                                   *)
(*   nilp  a typed nil pointer                                             *)
(*   zero  reflect.Value.IsZero: every field zero; for a slice, a map or a  *)
(*         pointer, nil                                                    *)
(*   empty  the value is the empty or default value of its type: a typed   *)
(*         nil, a slice or map without elements, a struct or array whose   *)
(*         fields are all zero                                             *)
(*   jsonOk  json.Marshal succeeds                                         *)
(***************************************************************************)
Val(kind) ==
  [kind |-> kind, b |-> FALSE, i |-> BigZero, f |-> FloatZero, t |-> ZeroTime, s |-> "",
   str |-> "", agg |-> FALSE, json |-> "", p |-> "", nilp |-> FALSE, zero |-> FALSE,
   empty |-> FALSE, jsonOk |-> TRUE]

SignedKinds == {"int", "int8", "int16", "int32", "int64"}

UnsignedKinds == {"uint", "uint8", "uint16", "uint32", "uint64"}

FloatKinds == {"float32", "float64"}

(***************************************************************************)
(* src/common/parse.go                                                     *)
(***************************************************************************)
\* val.String() at parse.go:69 dereferences a typed nil pointer whose String method
\* has a value receiver (as a nil pointer to time.Time): a run-time panic
ParseStringPanics(v) == v.kind \in {"stringer", "timeptr"} /\ v.nilp

\* the types that implement fmt.Stringer
IsStringer(v) == v.kind \in {"objectid", "stringer", "time", "timeptr"}

\* a variant of ParseString that serializes an aggregate before it asks for String()
ParseStringStructureFirst(v) ==
  IF v.kind = "nil" THEN ""
  ELSE IF v.kind = "string" THEN v.s
  ELSE IF v.kind \in SignedKinds \cup UnsignedKinds THEN FormatInt(v.i)
  ELSE IF v.kind = "float32" THEN v.s
  ELSE IF v.kind = "float64" THEN FormatFloat(v.f)
  ELSE IF v.kind = "bool" THEN (IF v.b THEN "true" ELSE "false")
  ELSE IF v.kind = "objectid" THEN v.s
  ELSE IF v.agg /\ v.jsonOk THEN v.json
  ELSE IF IsStringer(v) THEN v.str
  ELSE v.p

ParseString(v) ==
  IF v.kind = "nil" THEN ""
  ELSE IF v.kind = "string" THEN v.s
  ELSE IF v.kind \in SignedKinds \cup UnsignedKinds THEN FormatInt(v.i)
  ELSE IF v.kind = "float32" THEN v.s
  ELSE IF v.kind = "float64" THEN FormatFloat(v.f)
  ELSE IF v.kind = "bool" THEN (IF v.b THEN "true" ELSE "false")
  ELSE IF v.kind = "objectid" THEN v.s
  ELSE IF IsStringer(v) THEN v.str
  ELSE IF v.agg /\ v.jsonOk THEN v.json
  ELSE v.p

intOrZero(r) == IF r.ok THEN r.val ELSE BigZero

\* a variant of ParseInt that trims the text before it parses it
ParseIntTrimming(v) ==
  IF v.kind \in SignedKinds THEN v.i
  ELSE IF v.kind \in FloatKinds THEN FloatTrunc(v.f)
  ELSE IF v.kind = "string" THEN intOrZero(ParseIntText(TrimSpace(v.s)))
  ELSE BigZero

ParseInt(v) ==
  IF v.kind \in SignedKinds THEN v.i
  ELSE IF v.kind \in FloatKinds THEN FloatTrunc(v.f)
  ELSE IF v.kind = "string" THEN intOrZero(ParseIntText(v.s))
  ELSE BigZero

ParseFloat64Panics(v) ==
  v.kind \notin {"nil", "string", "bool"} \cup FloatKinds \cup SignedKinds \cup UnsignedKinds
    /\ ParseStringPanics(v)

floatOrZero(r) == IF r.ok THEN r.val ELSE FloatZero

\* float64(n) is exact for |n| <= 2^53 and for powers of two, which the modelled
\* integers are
ParseFloat64(v) ==
  IF v.kind = "nil" THEN FloatZero
  ELSE IF v.kind \in FloatKinds THEN v.f
  ELSE IF v.kind \in SignedKinds \cup UnsignedKinds THEN Float(v.i.neg, v.i.mag, "")
  ELSE IF v.kind = "string" THEN floatOrZero(ParseFloatText(v.s))
  ELSE IF v.kind = "bool" THEN (IF v.b THEN Float(FALSE, "1", "") ELSE FloatZero)
  ELSE floatOrZero(ParseFloatText(ParseString(v)))

\* value * 10^places: the scaled integer part and whether a fraction is left
Scaled(x, places) ==
  LET digits == x.fp \o Zeros(places)
  IN  [neg |-> x.neg, mag |-> StripZeros(x.ip \o Upto(digits, places)),
       half |-> DigitVal(At(digits \o "0", places + 1)) >= 5,
       frac |-> StripTrailingZeros(From(digits, places + 1)) # ""]

\* k / 10^places for an integer of magnitude mag
Unscaled(neg, mag, places) ==
  LET m == Zeros(places + 1 - Len(mag)) \o mag
  IN  Float(neg, Upto(m, Len(m) - places), From(m, Len(m) - places + 1))

\* a variant that takes the magnitude of a negative number of places
ClampPlacesMagnitude(decimalPlaces) == IF decimalPlaces < 0 THEN -decimalPlaces ELSE decimalPlaces

ClampPlaces(decimalPlaces) == IF decimalPlaces < 0 THEN 0 ELSE decimalPlaces

ParseFloat64RoundUp(v, decimalPlaces) ==
  LET pl == ClampPlaces(decimalPlaces)
      k  == Scaled(ParseFloat64(v), pl)
  IN  Unscaled(k.neg, IF k.frac /\ ~k.neg THEN MagAdd(k.mag, "1") ELSE k.mag, pl)

ParseFloat64RoundDown(v, decimalPlaces) ==
  LET pl == ClampPlaces(decimalPlaces)
      k  == Scaled(ParseFloat64(v), pl)
  IN  Unscaled(k.neg, IF k.frac /\ k.neg THEN MagAdd(k.mag, "1") ELSE k.mag, pl)

\* a variant that rounds halves up, as math.Floor(value*multiplier + 0.5) does
ParseFloat64RoundAutoHalfUp(v, decimalPlaces) ==
  LET pl  == ClampPlaces(decimalPlaces)
      x   == ParseFloat64(v)
      k   == Scaled(x, pl)
      tie == StripTrailingZeros(From(x.fp \o Zeros(pl), pl + 1)) = "5"
  IN  Unscaled(k.neg, IF k.half /\ ~(k.neg /\ tie) THEN MagAdd(k.mag, "1") ELSE k.mag, pl)

ParseFloat64RoundAuto(v, decimalPlaces) ==
  LET pl == ClampPlaces(decimalPlaces)
      k  == Scaled(ParseFloat64(v), pl)
  IN  Unscaled(k.neg, IF k.half THEN MagAdd(k.mag, "1") ELSE k.mag, pl)

RoundNone == 0

RoundUp == 1

RoundDown == 2

RoundAuto == 3

ParseFloat64Round(v, mode, decimalPlaces) ==
  LET value == ParseFloat64(v) IN
  IF mode = RoundNone THEN value
  ELSE IF mode = RoundUp THEN ParseFloat64RoundUp([Val("float64") EXCEPT !.f = value], decimalPlaces)
  ELSE IF mode = RoundDown THEN ParseFloat64RoundDown([Val("float64") EXCEPT !.f = value], decimalPlaces)
  ELSE IF mode = RoundAuto THEN ParseFloat64RoundAuto([Val("float64") EXCEPT !.f = value], decimalPlaces)
  ELSE value

boolOfText(str) ==
  IF str \in {"true", "t", "yes", "y", "on", "1"} THEN TRUE
  ELSE IF str \in {"false", "f", "no", "n", "off", "0", ""} THEN FALSE
  ELSE ~FloatIsZero(floatOrZero(ParseFloatText(str)))

\* a variant of ParseBool that compares the text without lower-casing it
ParseBoolCaseSensitive(v) ==
  IF v.kind = "nil" THEN FALSE
  ELSE IF v.kind = "bool" THEN v.b
  ELSE IF v.kind \in SignedKinds \cup UnsignedKinds THEN v.i # BigZero
  ELSE IF v.kind \in FloatKinds THEN ~FloatIsZero(v.f)
  ELSE IF v.kind = "string" THEN boolOfText(TrimSpace(v.s))
  ELSE ~v.zero

ParseBool(v) ==
  IF v.kind = "nil" THEN FALSE
  ELSE IF v.kind = "bool" THEN v.b
  ELSE IF v.kind \in SignedKinds \cup UnsignedKinds THEN v.i # BigZero
  ELSE IF v.kind \in FloatKinds THEN ~FloatIsZero(v.f)
  ELSE IF v.kind = "string" THEN boolOfText(TrimSpace(ToLower(v.s)))
  ELSE ~v.zero

\* a variant of uniqueDefaultParseTime whose thresholds are inclusive
uniqueDefaultParseTimeInclusive(num) ==
  IF ~BigGt(BigPow10(15), num)
    THEN IF ~BigGt(BigPow10(18), num) THEN Unix(BigZero, num)
         ELSE Unix(BigQuoPow10(num, 6), BigOf(BigRemPow10(num, 6) * 1000))
  ELSE Unix(BigQuoPow10(num, 3), BigOf(BigRemPow10(num, 3) * 1000000))

uniqueDefaultParseTime(num) ==
  IF BigGt(num, BigPow10(15))
    THEN IF BigGt(num, BigPow10(18)) THEN Unix(BigZero, num)
         ELSE Unix(BigQuoPow10(num, 6), BigOf(BigRemPow10(num, 6) * 1000))
  ELSE Unix(BigQuoPow10(num, 3), BigOf(BigRemPow10(num, 3) * 1000000))

\* the second half of parseUnixTimestamp: the text as fractional seconds
unixFromFloat(f) ==
  IF f.ok THEN Unix(FloatTrunc(f.val), BigOf(FloatFracNanos(f.val))) ELSE ZeroTime

\* a variant of unixFromInt that keeps whole seconds only
unixFromIntWholeSeconds(num, format) ==
  IF format = TimeFormatUnix THEN Unix(num, BigZero)
  ELSE IF format = TimeFormatUnixMilli THEN Unix(BigQuoPow10(num, 3), BigZero)
  ELSE IF format = TimeFormatUnixMicro THEN Unix(BigQuoPow10(num, 6), BigZero)
  ELSE IF format = TimeFormatUnixNano THEN Unix(BigQuoPow10(num, 9), BigZero)
  ELSE IF BigGt(num, BigPow10(12)) THEN uniqueDefaultParseTime(num)
  ELSE Unix(num, BigZero)

\* a variant of unixFromInt that detects the unit from the absolute value
unixFromIntByAbsoluteValue(num, format) ==
  IF format = TimeFormatUnix THEN Unix(num, BigZero)
  ELSE IF format = TimeFormatUnixMilli
    THEN Unix(BigQuoPow10(num, 3), BigOf(BigRemPow10(num, 3) * 1000000))
  ELSE IF format = TimeFormatUnixMicro
    THEN Unix(BigQuoPow10(num, 6), BigOf(BigRemPow10(num, 6) * 1000))
  ELSE IF format = TimeFormatUnixNano THEN Unix(BigZero, num)
  ELSE IF BigGt(Big(FALSE, num.mag), BigPow10(12)) THEN uniqueDefaultParseTime(num)
  ELSE Unix(num, BigZero)

\* the first half of parseUnixTimestamp: the integer num scaled by format
unixFromInt(num, format) ==
  IF format = TimeFormatUnix THEN Unix(num, BigZero)
  ELSE IF format = TimeFormatUnixMilli
    THEN Unix(BigQuoPow10(num, 3), BigOf(BigRemPow10(num, 3) * 1000000))
  ELSE IF format = TimeFormatUnixMicro
    THEN Unix(BigQuoPow10(num, 6), BigOf(BigRemPow10(num, 6) * 1000))
  ELSE IF format = TimeFormatUnixNano THEN Unix(BigZero, num)
  ELSE IF BigGt(num, BigPow10(12)) THEN uniqueDefaultParseTime(num)
  ELSE Unix(num, BigZero)

\* a variant of unixOf that applies the unit of format to the whole part of a float
unixOfFloatInUnit(n, str, format) ==
  IF n.ok THEN unixFromInt(n.val, format)
  ELSE IF ParseFloatText(str).ok
    THEN unixFromInt(FloatTrunc(ParseFloatText(str).val), format)
  ELSE ZeroTime

unixOf(n, str, format) ==
  IF n.ok THEN unixFromInt(n.val, format) ELSE unixFromFloat(ParseFloatText(str))

parseUnixTimestamp(str, format) == unixOf(ParseIntText(str), str, format)

RECURSIVE customFrom(_, _, _)
customUnix(t, str, formats, i) == IF ~IsZero(t) THEN t ELSE customFrom(str, formats, i + 1)

customLayout(r, str, formats, i) == IF r.ok THEN r.t ELSE customFrom(str, formats, i + 1)

\* the loop of parseCustomFormats from the i-th format on
customFrom(str, formats, i) ==
  IF i > Len(formats) THEN ZeroTime
  ELSE IF HasPrefix(formats[i], "unix")
    THEN customUnix(parseUnixTimestamp(str, formats[i]), str, formats, i)
  ELSE customLayout(TimeParse(formats[i], str), str, formats, i)

parseCustomFormats(str, formats) == customFrom(str, formats, 1)

\* a variant of commonFormats with the day-first slash date before the month-first one
commonFormatsDayFirst ==
  <<TimeFormatRFC3339, TimeFormatRFC3339Nano, TimeFormatDateTime, TimeFormatDateTimeT,
    TimeFormatDateTimeTZ, TimeFormatDateTimeTMilliZ, TimeFormatDateTimeTMicroZ,
    TimeFormatDateTimeTNanoZ, TimeFormatDateTimeTOffset, TimeFormatDateTimeMilli,
    TimeFormatDateTimeMicro, TimeFormatDateTimeNano, TimeFormatDate, TimeFormatDateSlash,
    TimeFormatDateEU, TimeFormatDateUS, TimeFormatDateCompact, TimeFormatDateReadable,
    TimeFormatDateLong, TimeFormatRFC1123, TimeFormatRFC1123Z, TimeFormatRFC822,
    TimeFormatRFC822Z, TimeFormatRFC3339, TimeFormatRFC3339Nano, TimeFormatRFC1123,
    TimeFormatRFC1123Z, TimeFormatRFC822, TimeFormatRFC822Z, timeRFC850, timeANSIC,
    timeUnixDate, timeRubyDate>>

commonFormats ==
  <<TimeFormatRFC3339, TimeFormatRFC3339Nano, TimeFormatDateTime, TimeFormatDateTimeT,
    TimeFormatDateTimeTZ, TimeFormatDateTimeTMilliZ, TimeFormatDateTimeTMicroZ,
    TimeFormatDateTimeTNanoZ, TimeFormatDateTimeTOffset, TimeFormatDateTimeMilli,
    TimeFormatDateTimeMicro, TimeFormatDateTimeNano, TimeFormatDate, TimeFormatDateSlash,
    TimeFormatDateUS, TimeFormatDateEU, TimeFormatDateCompact, TimeFormatDateReadable,
    TimeFormatDateLong, TimeFormatRFC1123, TimeFormatRFC1123Z, TimeFormatRFC822,
    TimeFormatRFC822Z, TimeFormatRFC3339, TimeFormatRFC3339Nano, TimeFormatRFC1123,
    TimeFormatRFC1123Z, TimeFormatRFC822, TimeFormatRFC822Z, timeRFC850, timeANSIC,
    timeUnixDate, timeRubyDate>>

RECURSIVE firstLayout(_, _, _)
layoutResult(r, table, str, i) ==
  IF r.ok THEN [ok |-> TRUE, t |-> r.t, at |-> i] ELSE firstLayout(table, str, i + 1)

\* the loop over a layout table from its i-th entry on: the first that parses str
firstLayout(table, str, i) ==
  IF i > Len(table) THEN [ok |-> FALSE, t |-> ZeroTime, at |-> 0]
  ELSE layoutResult(TimeParse(table[i], str), table, str, i)

\* the end of parseTimeFromString: the text as a Unix timestamp, the zero time if
\* that is zero
unixOrZero(u) == IF ~IsZero(u) THEN u ELSE ZeroTime

\* a variant of defaultFormats that reads the text as a number before it uses a layout
defaultFormatsNumberFirst(l, str) ==
  IF ~IsZero(parseUnixTimestamp(str, "")) THEN parseUnixTimestamp(str, "")
  ELSE IF l.ok THEN l.t
  ELSE ZeroTime

defaultFormats(l, str) == IF l.ok THEN l.t ELSE unixOrZero(parseUnixTimestamp(str, ""))

\* a variant of trimmedTime that gives the epoch, time.Unix(0, 0), for the empty text
trimmedTimeEpochForEmpty(str, formats) ==
  IF str = "" THEN Unix(BigZero, BigZero)
  ELSE IF Len(formats) > 0 THEN parseCustomFormats(str, formats)
  ELSE defaultFormats(firstLayout(commonFormats, str, 1), str)

trimmedTime(str, formats) ==
  IF str = "" THEN ZeroTime
  ELSE IF Len(formats) > 0 THEN parseCustomFormats(str, formats)
  ELSE defaultFormats(firstLayout(commonFormats, str, 1), str)

parseTimeFromString(s, formats) == trimmedTime(TrimSpace(s), formats)

ParseTimePanics(v) ==
  v.kind \notin {"nil", "time", "timeptr", "string", "int", "int32", "int64", "uint",
                 "uint32", "uint64", "float32", "float64"}
    /\ ParseStringPanics(v)

\* parse.go:342-346, the default branch
timeOfText(str, formats) == IF str # "" THEN parseTimeFromString(str, formats) ELSE ZeroTime

\* a variant of ParseTime without the case for time.Time, which then reaches the
\* default branch
ParseTimeWithoutInstantCase(v, formats) ==
  IF v.kind = "nil" THEN ZeroTime
  ELSE IF v.kind = "timeptr" THEN (IF ~v.nilp THEN v.t ELSE ZeroTime)
  ELSE IF v.kind = "string" THEN parseTimeFromString(v.s, formats)
  ELSE IF v.kind \in {"int", "int32", "int64"} THEN Unix(v.i, BigZero)
  ELSE IF v.kind \in {"uint", "uint32", "uint64"} THEN Unix(Wrap64(v.i), BigZero)
  ELSE IF v.kind \in FloatKinds THEN Unix(FloatTrunc(v.f), BigOf(FloatFracNanos(v.f)))
  ELSE timeOfText(ParseString(v), formats)

ParseTime(v, formats) ==
  IF v.kind = "nil" THEN ZeroTime
  ELSE IF v.kind = "time" THEN v.t
  ELSE IF v.kind = "timeptr" THEN (IF ~v.nilp THEN v.t ELSE ZeroTime)
  ELSE IF v.kind = "string" THEN parseTimeFromString(v.s, formats)
  ELSE IF v.kind \in {"int", "int32", "int64"} THEN Unix(v.i, BigZero)
  ELSE IF v.kind \in {"uint", "uint32", "uint64"} THEN Unix(Wrap64(v.i), BigZero)
  ELSE IF v.kind \in FloatKinds THEN Unix(FloatTrunc(v.f), BigOf(FloatFracNanos(v.f)))
  ELSE timeOfText(ParseString(v), formats)

(***************************************************************************)
(* The inputs of the model                                                 *)
(***************************************************************************)
\* numerals n with |n - 10^k| <= MaxDelta are generated around each threshold
MaxDelta == 1

\* the two-digit fields of the generated slash dates run over 0..MaxField
MaxField == 13

\* the longest list of explicit formats
MaxFormats == 2

\* the largest number of decimal places
MaxPlaces == 2

TwoDigits(n) == DigitChar(n \div 10) \o DigitChar(n % 10)

ThresholdNumerals ==
  {FormatInt(BigAdd(BigPow10(k), BigOf(d))) : k \in {12, 15, 18}, d \in (-MaxDelta)..MaxDelta}

NumeralTexts ==
  ThresholdNumerals \cup {"-" \o n : n \in ThresholdNumerals}
    \cup {"0", "5", "-1", "+5", "007", "300", "1697297045", "1697297045000", "1697297045000000",
          "1697297045000000000", "-1697297045000", "-62135596800", "-62135596801", "-1001",
          "-1500", "1999", "1234567", "9223372036854775807", "-9223372036854775808",
          "20241014", "20240230", "99999999", "00010101"}

\* decimals whose fraction is a multiple of 2^-9 (exact in float64)
FloatTexts ==
  {"1.5", "-1.5", "0.25", "-0.5", "10.125", "1697297045.5", "-62135596800.0", "2.", ".5"}

SlashTexts ==
  {TwoDigits(a) \o "/" \o TwoDigits(b) \o "/2006" : a, b \in 0..MaxField}
    \cup {"02/29/2024", "02/29/2023", "02/30/2024", "04/31/2024", "31/04/2024", "12/31/2024",
          "31/12/2024", "1/2/2006", "2024/10/14"}

\* a text valid under each layout constant of constants.go, in their order there
LayoutSamples ==
  <<"2024-10-14T15:04:05+07:00", "2024-10-14T15:04:05.123456789Z", "14 Oct 24 15:04 UTC",
    "14 Oct 24 15:04 -0700", "Mon, 14 Oct 2024 15:04:05 GMT", "Mon, 14 Oct 2024 15:04:05 -0700",
    "2024-10-14 15:04:05", "2024-10-14 15:04:05 -0700", "2024-10-14 15:04:05.123",
    "2024-10-14 15:04:05.123456", "2024-10-14 15:04:05.123456789", "2024-10-14T15:04:05",
    "2024-10-14T15:04:05.123", "2024-10-14T15:04:05Z", "2024-10-14T15:04:05.123Z",
    "2024-10-14T15:04:05-07:00", "2024-10-14T15:04:05.123456Z",
    "2024-10-14T15:04:05.123456789Z", "2024-10-14", "2024/10/14", "2024.10.14", "10/14/2024",
    "10-14-2024", "14/10/2024", "14-10-2024", "20241014", "14 Oct 2024", "October 14, 2024",
    "15:04:05", "15:04:05.123", "15:04:05.123456", "15:04", "03:04:05 PM", "03:04 PM">>

LayoutConstants ==
  <<TimeFormatRFC3339, TimeFormatRFC3339Nano, TimeFormatRFC822, TimeFormatRFC822Z,
    TimeFormatRFC1123, TimeFormatRFC1123Z, TimeFormatDateTime, TimeFormatDateTimeWithTZ,
    TimeFormatDateTimeMilli, TimeFormatDateTimeMicro, TimeFormatDateTimeNano,
    TimeFormatDateTimeT, TimeFormatDateTimeTMilli, TimeFormatDateTimeTZ,
    TimeFormatDateTimeTMilliZ, TimeFormatDateTimeTOffset, TimeFormatDateTimeTMicroZ,
    TimeFormatDateTimeTNanoZ, TimeFormatDate, TimeFormatDateSlash, TimeFormatDateDot,
    TimeFormatDateUS, TimeFormatDateUSWithDash, TimeFormatDateEU, TimeFormatDateEUWithDash,
    TimeFormatDateCompact, TimeFormatDateReadable, TimeFormatDateLong, TimeFormatTime,
    TimeFormatTimeMilli, TimeFormatTimeMicro, TimeFormatTimeShort, TimeFormatTime12Hour,
    TimeFormatTime12>>

UnitFormats == {TimeFormatUnix, TimeFormatUnixMilli, TimeFormatUnixMicro, TimeFormatUnixNano}

OtherTexts ==
  {"", "   ", " 1697297045 ", " 2024-10-14 ", "maybe", "abc", "2024-13-01", "2024-02-30",
   "Mon Oct 14 15:04:05 2024", "Mon Oct 14 15:04:05 UTC 2024", "Mon Oct 14 15:04:05 -0700 2024",
   "Monday, 14-Oct-24 15:04:05 UTC", "0001-01-01", "0001-01-01T00:00:00Z", "YES", "Off", "true",
   "12a", "1.0", "0.0", "3.14", "+", "-", " 42", "2", " Yes ", "T", "nO"}

Texts ==
  NumeralTexts \cup FloatTexts \cup SlashTexts \cup OtherTexts
    \cup {LayoutSamples[i] : i \in DOMAIN LayoutSamples}

\* native integers: every one within the range of its kind, and exact as a float64
IntsOf(kind) ==
  LET tiny == {"0", "1", "5", "127"}
      neg  == {"-1", "-128"}
      wide == {"1697297045", "20241014"}
      huge == {"1697297045000", "1000000000000", "1000000000001"}
      N(S) == {ParseIntText(n).val : n \in S}
  IN  CASE kind \in {"int8"} -> N(tiny \cup neg)
        [] kind \in {"uint8"} -> N(tiny \cup {"255"})
        [] kind \in {"int16"} -> N(tiny \cup neg \cup {"32767"})
        [] kind \in {"uint16"} -> N(tiny \cup {"65535"})
        [] kind \in {"int32"} -> N(tiny \cup neg \cup wide)
        [] kind \in {"uint32"} -> N(tiny \cup wide)
        [] kind \in {"int", "int64"} -> N(tiny \cup neg \cup wide \cup huge \cup {"-62135596800"})
        [] kind \in {"uint", "uint64"} ->
             N(tiny \cup wide \cup huge) \cup {Big(FALSE, "9223372036854775808")}

\* 64-bit floats: multiples of 2^-9, whose arithmetic is exact, and 2.341, 2.345 and
\* 2.349, for which value * 10^p is off an integer or a half by far more than the
\* rounding error of the product for p up to 3
Floats64 ==
  {"0", "1.5", "-1.5", "2.75", "-2.75", "1697297045.5", "3", "0.125", "2.5", "-2.5",
   "2.341", "2.345", "2.349", "-2.345"}

\* 32-bit floats (24 bits of mantissa), each with its shortest decimal: 1697297024 is
\* float32(1697297045), between its neighbours 1697296896 and 1697297152
Floats32 ==
  {<<"0", "0">>, <<"1.5", "1.5">>, <<"-1.5", "-1.5">>, <<"2.75", "2.75">>, <<"-2.75", "-2.75">>,
   <<"3", "3">>, <<"0.125", "0.125">>, <<"-2.5", "-2.5">>, <<"16777216", "16777216">>,
   <<"1697297024", "1697297000">>, <<"123456792", "123456790">>}

\* each instant with what its String() and its MarshalJSON give
TimeTexts ==
  {<<ZeroTime, "0001-01-01 00:00:00 +0000 UTC", "\"0001-01-01T00:00:00Z\"">>,
   <<Instant(BigZero, 0), "1970-01-01 00:00:00 +0000 UTC", "\"1970-01-01T00:00:00Z\"">>,
   <<Instant(Big(FALSE, "1728918245"), 123000000), "2024-10-14 15:04:05.123 +0000 UTC",
     "\"2024-10-14T15:04:05.123Z\"">>}

Values ==
  {Val("nil")}
    \cup {[Val("string") EXCEPT !.s = x] : x \in Texts}
    \cup {[Val("bool") EXCEPT !.b = x] : x \in BOOLEAN}
    \cup UNION {{[Val(k) EXCEPT !.i = n] : n \in IntsOf(k)} : k \in SignedKinds \cup UnsignedKinds}
    \cup {[Val("float64") EXCEPT !.f = ParseFloatText(x).val] : x \in Floats64}
    \cup {[Val("float32") EXCEPT !.f = ParseFloatText(x[1]).val, !.s = x[2]] : x \in Floats32}
    \cup {[Val("time") EXCEPT !.t = x[1], !.str = x[2], !.json = x[3], !.p = x[2], !.agg = TRUE,
                          !.zero = (x[1] = ZeroTime), !.empty = (x[1] = ZeroTime)] :
            x \in TimeTexts}
    \cup {[Val("timeptr") EXCEPT !.t = x[1], !.str = x[2], !.json = x[3], !.p = x[2]] :
            x \in TimeTexts}
    \cup {[Val("timeptr") EXCEPT !.nilp = TRUE, !.json = "null", !.p = "<nil>", !.zero = TRUE,
                             !.empty = TRUE]}
    \cup {[Val("objectid") EXCEPT !.s = "507f1f77bcf86cd799439011", !.agg = TRUE,
                              !.str = "ObjectID(\"507f1f77bcf86cd799439011\")",
                              !.json = "\"507f1f77bcf86cd799439011\"",
                              !.p = "ObjectID(\"507f1f77bcf86cd799439011\")"],
          [Val("objectid") EXCEPT !.s = "000000000000000000000000", !.agg = TRUE,
                              !.str = "ObjectID(\"000000000000000000000000\")",
                              !.json = "\"000000000000000000000000\"",
                              !.p = "ObjectID(\"000000000000000000000000\")",
                              !.zero = TRUE, !.empty = TRUE]}
    \* named non-aggregate types with a String method, e.g. time.Duration
    \cup {[Val("stringer") EXCEPT !.str = x, !.p = x, !.json = "1"] :
            x \in {"", "custom", "2024-10-14", "1697297045", "1697297045000", "1.5"}}
    \* structs, maps and slices with a String method
    \cup {[Val("stringer") EXCEPT !.str = x, !.p = x, !.agg = TRUE, !.json = "{\"a\":1}"] :
            x \in {"custom", "2024-10-14", "1697297045"}}
    \cup {[Val("stringer") EXCEPT !.str = "custom", !.p = "custom", !.agg = TRUE, !.jsonOk = FALSE]}
    \cup {[Val("stringer") EXCEPT !.nilp = TRUE, !.json = "null", !.p = "<nil>", !.zero = TRUE,
                              !.empty = TRUE]}
    \* struct{}{}; []int{}; []int(nil); map[string]int{}; map[string]int(nil); []int{1, 2};
    \* map[int]chan int, which json.Marshal rejects
    \cup {[Val("aggregate") EXCEPT !.agg = TRUE, !.json = x[1], !.p = x[2], !.zero = x[3],
                               !.empty = x[4]] :
            x \in {<<"{}", "{}", TRUE, TRUE>>, <<"[]", "[]", FALSE, TRUE>>,
                    <<"null", "[]", TRUE, TRUE>>, <<"{}", "map[]", FALSE, TRUE>>,
                    <<"null", "map[]", TRUE, TRUE>>, <<"[1,2]", "[1 2]", FALSE, FALSE>>,
                    <<"{\"at\":\"2024-10-14\"}", "{2024-10-14}", FALSE, FALSE>>}}
    \cup {[Val("aggregate") EXCEPT !.agg = TRUE, !.p = "map[1:0xc000010000]", !.jsonOk = FALSE]}
    \* a pointer to a struct; a nil pointer to one; the empty value of a named string type
    \cup {[Val("other") EXCEPT !.p = "", !.json = "\"\"", !.zero = TRUE, !.empty = TRUE],
          [Val("other") EXCEPT !.p = "0xc000010000", !.json = "{}"],
          [Val("other") EXCEPT !.p = "<nil>", !.json = "null", !.nilp = TRUE, !.zero = TRUE,
                           !.empty = TRUE]}

\* the formats combined into lists of up to MaxFormats
ListFormats ==
  {TimeFormatDateUS, TimeFormatDateEU, TimeFormatDate, TimeFormatUnix, TimeFormatUnixMilli}

RECURSIVE ListsUpTo(_)
ListsUpTo(n) ==
  IF n = 0 THEN {<<>>}
  ELSE LET shorter == ListsUpTo(n - 1)
       IN  shorter \cup {Append(l, f) : l \in {x \in shorter : Len(x) = n - 1}, f \in ListFormats}

FormatLists ==
  ListsUpTo(MaxFormats) \cup {<<f>> : f \in UnitFormats}
    \cup {<<LayoutConstants[i]>> : i \in DOMAIN LayoutConstants}
    \cup {<<TimeFormatDateUSWithDash, TimeFormatDateEUWithDash>>,
          <<TimeFormatDateEUWithDash, TimeFormatDateUSWithDash>>,
          <<TimeFormatUnixMilli, TimeFormatUnixNano>>, <<TimeFormatUnixMicro, TimeFormatDate>>,
          <<"unix-ms">>}

Modes == RoundNone..(RoundAuto + 1)

\* The values the float functions are called on: those whose float64 has at most 15
\* significant digits after scaling by 10^MaxPlaces, so that a decimal names one
\* float64 and the products are below 2^53.  (The long numerals of NumeralTexts are
\* inputs of the other functions only.)
FloatInputs == {v \in Values : Len(ParseFloat64(v).ip) + MaxPlaces < 16}

(***************************************************************************)
(* The state                                                               *)
(***************************************************************************)
VARIABLES
  fn,       \* the function called, "none" before the call
  arg,      \* its argument v
  fmts,     \* the formats of a ParseTime call
  mode,     \* the mode of a ParseFloat64Round call
  places,   \* its decimalPlaces
  res,      \* the value returned
  outcome   \* "idle", "returned" or "panicked"

\* package db
VARIABLES
  environ,  \* the process environment: MONGO_URI and MONGO_DB_NAME
  server,   \* whether the MongoDB server answers
  made,     \* the number of clients mongo.Connect has created
  lib,      \* what NewMongo returned: "none" before the call, then "nil" or "handle"
  mongo,    \* the MongoLib value m: its fields uri, client, database
  procs     \* per goroutine: its position in the running method, and the locals

\* package auth
VARIABLES
  accessSecret,   \* the key of access tokens, from ACCESS_SECRET
  refreshSecret,  \* the key of refresh tokens, from REFRESH_SECRET
  clock,          \* the time, in half seconds
  pair,           \* the last call of GenerateTokenPair: its user info and its tokens
  validation      \* the last call of a Validate function: its token, time and results

\* concurrent calls of package common
VARIABLES
  calls,    \* per goroutine: the function it runs, the arguments, the position, the result
  frames    \* the locals of the running calls of parseTimeFromString

coercionVars == <<fn, arg, fmts, mode, places, res, outcome>>

goVars == <<calls, frames>>

authVars == <<accessSecret, refreshSecret, clock, pair, validation>>

dbVars == <<environ, server, made, lib, mongo, procs>>

vars == <<coercionVars, dbVars, authVars, goVars>>

\* the variables a specification of one package leaves alone
notCoercion == <<dbVars, authVars, goVars>>

notDb == <<coercionVars, authVars, goVars>>

notAuth == <<coercionVars, dbVars, goVars>>

notGo == <<coercionVars, dbVars, authVars>>

\* the state of package common in a run that calls none of its functions
CoercionUnused ==
  /\ fn = "none"
  /\ arg = Val("nil")
  /\ fmts = <<>>
  /\ mode = 0
  /\ places = 0
  /\ res = ""
  /\ outcome = "idle"

\* the goroutines of a run
Goroutines == {"g1", "g2"}

\* a goroutine that runs no function of package common
NoCall ==
  [pc |-> "idle", fn |-> "none", v |-> Val("nil"), formats |-> <<>>, mode |-> 0, places |-> 0,
   res |-> "", outcome |-> "idle"]

\* the locals of parseTimeFromString before the call: str, commonFormats and the
\* position of the range loop
NoFrame == [str |-> "", commonFormats |-> <<>>, i |-> 0]

\* the state of a run without concurrent calls of package common
GoUnused ==
  /\ calls = [g \in Goroutines |-> NoCall]
  /\ frames = [g \in Goroutines |-> NoFrame]

\* the *Claims of a failed validation
NilClaims == [nil |-> TRUE]

\* a text that is no token
Garbage == [claims |-> NilClaims, key |-> ""]

\* no pair was generated, no token validated
NoPair == [userInfo |-> <<>>, access |-> Garbage, refresh |-> Garbage]

NoValidation == [fn |-> "none", token |-> Garbage, now |-> 0, claims |-> NilClaims, err |-> ""]

\* the state of package auth in a run that does not use it
AuthUnused ==
  /\ accessSecret = ""
  /\ refreshSecret = ""
  /\ clock = 0
  /\ pair = NoPair
  /\ validation = NoValidation

(***************************************************************************)
(* package db: MongoLib (mongo.go)                                         *)
(*                                                                         *)
(* A MongoLib value has no lock: its methods run as the steps below, and   *)
(* the steps of different goroutines interleave.  A client is named by the *)
(* number of the mongo.Connect call that made it, 0 is the nil client.     *)
(* The environment is the one the process was started with.                *)
(***************************************************************************)
\* the bound on the clients made in one run
MaxClients == 3

\* the values of MONGO_URI: unset, a MongoDB URI, a text that is no URI
URIs == {"", "mongodb://db:27017", "db:27017"}

\* the values of MONGO_DB_NAME
DbNames == {"", "app"}

\* the operations that start with ensureConnection
DbOps ==
  {"FindOne", "Find", "InsertOne", "InsertMany", "DeleteOne", "DeleteMany", "updateOne",
   "updateMany", "Aggregate", "Count"}

ErrURI == "MONGO_URI environment variable is required"

ErrDbName == "MONGO_DB_NAME environment variable is required"

\* the errors of the driver
ErrConnect == "error parsing uri"

ErrPing == "server selection error"

\* a *mongo.Database: the client it belongs to and its name
Database(client, name) == [client |-> client, name |-> name]

NilDatabase == Database(0, "")

\* &MongoLib{...} of NewMongo: uri, client and database are zero
NewMongoLib == [uri |-> "", client |-> 0, database |-> NilDatabase]

\* a goroutine that runs no method of the handle
Idle ==
  [pc |-> "idle", op |-> "", client |-> 0, dbName |-> "", err |-> "", checked |-> FALSE,
   issued |-> NilDatabase]

\* client.Ping: the server answers
PingOk(client) == server /\ client # 0

\* a variant of afterEnsure that goes on to the database whatever err is
afterEnsureIgnoringError(err) == "issue"

\* the test of ensureConnection's result that opens every operation: the operation
\* goes on to the database when err is nil and returns err otherwise
afterEnsure(err) == IF err = "" THEN "issue" ELSE "return"

\* connect returns err, to NewMongo or through ensureConnection to the operation
connectReturns(p, err) ==
  IF p.op = "NewMongo" THEN [p EXCEPT !.pc = "new", !.err = err]
  ELSE [p EXCEPT !.pc = afterEnsure(err), !.err = err, !.checked = (err = "")]

\* a variant of connectOrder that stores the client before it is pinged
connectOrderStoringFirst == <<"dial", "store", "storedb", "cping">>

\* the steps of connect after the environment is read, in their order
connectOrder == <<"dial", "cping", "store", "storedb">>

\* p after the i-th step of connect succeeded
connectStep(p, i) ==
  IF i = Len(connectOrder) THEN connectReturns(p, "") ELSE [p EXCEPT !.pc = connectOrder[i + 1]]

\* the place of the step a goroutine is at
connectAt(pc) == CHOOSE i \in DOMAIN connectOrder : connectOrder[i] = pc

connectNext(p) == connectStep(p, connectAt(p.pc))

\* a variant of connectEnv that does not ask for MONGO_DB_NAME
connectEnvOptionalDbName(p) ==
  IF environ.MONGO_URI = "" THEN connectReturns(p, ErrURI)
  ELSE [p EXCEPT !.pc = connectOrder[1], !.dbName = environ.MONGO_DB_NAME]

\* connect, lines 81-90: the environment is read, m.uri is assigned
connectEnv(p) ==
  IF environ.MONGO_URI = "" THEN connectReturns(p, ErrURI)
  ELSE IF environ.MONGO_DB_NAME = "" THEN connectReturns(p, ErrDbName)
  ELSE [p EXCEPT !.pc = connectOrder[1], !.dbName = environ.MONGO_DB_NAME]

\* mongo.Connect(clientOpts): the options carry the error of a text that is no URI
ConnectOk(uri) == HasPrefix(uri, "mongodb://")

DbInit ==
  /\ environ \in [MONGO_URI : URIs, MONGO_DB_NAME : DbNames]
  /\ server \in BOOLEAN
  /\ made = 0
  /\ lib = "none"
  /\ mongo = NewMongoLib
  /\ procs = [g \in Goroutines |-> Idle]
  /\ CoercionUnused
  /\ AuthUnused
  /\ GoUnused

\* the state of package db in a run that does not use it
DbUnused ==
  /\ environ = [MONGO_URI |-> "", MONGO_DB_NAME |-> ""]
  /\ server = FALSE
  /\ made = 0
  /\ lib = "none"
  /\ mongo = NewMongoLib
  /\ procs = [g \in Goroutines |-> Idle]

\* goroutine g goes on as p
Goes(g, p) == procs' = [procs EXCEPT ![g] = p]

\* NewMongo, lines 57-69: the value is built and connect is called
NewMongo ==
  \E g \in Goroutines :
    /\ lib = "none"
    /\ procs[g].pc = "idle"
    /\ lib' = "constructing"
    /\ mongo' = NewMongoLib
    /\ Goes(g, [Idle EXCEPT !.pc = "connect", !.op = "NewMongo"])
    /\ UNCHANGED <<notDb, environ, server, made>>

\* NewMongo, lines 70-75: nil when connect failed, the handle otherwise
NewMongoReturn ==
  \E g \in Goroutines :
    /\ procs[g].pc = "new"
    /\ lib' = IF procs[g].err = "" THEN "handle" ELSE "nil"
    /\ Goes(g, [procs[g] EXCEPT !.pc = "return"])
    /\ UNCHANGED <<notDb, environ, server, made, mongo>>

\* a goroutine calls one of the operations on the handle
Operation ==
  \E g \in Goroutines, op \in DbOps :
    /\ lib = "handle"
    /\ procs[g].pc = "idle"
    /\ Goes(g, [Idle EXCEPT !.pc = "ensure", !.op = op])
    /\ UNCHANGED <<notDb, environ, server, made, lib, mongo>>

\* ensureConnection, lines 530-532: m.client is read
EnsureConnection ==
  \E g \in Goroutines :
    /\ procs[g].pc = "ensure"
    /\ Goes(g, [procs[g] EXCEPT !.pc = IF mongo.client = 0 THEN "connect" ELSE "ping"])
    /\ UNCHANGED <<notDb, environ, server, made, lib, mongo>>

\* ensureConnection, lines 535-544: m.client is read again and pinged
EnsurePing ==
  \E g \in Goroutines :
    /\ procs[g].pc = "ping"
    /\ Goes(g, IF PingOk(mongo.client)
               THEN [procs[g] EXCEPT !.pc = afterEnsure(""), !.checked = TRUE]
               ELSE [procs[g] EXCEPT !.pc = "connect"])
    /\ UNCHANGED <<notDb, environ, server, made, lib, mongo>>

\* connect, lines 81-90
ConnectEnv ==
  \E g \in Goroutines :
    /\ procs[g].pc = "connect"
    /\ mongo' = [mongo EXCEPT !.uri = environ.MONGO_URI]
    /\ Goes(g, connectEnv(procs[g]))
    /\ UNCHANGED <<notDb, environ, server, made, lib>>

\* connect, lines 93-110: mongo.Connect
ConnectDial ==
  \E g \in Goroutines :
    /\ procs[g].pc = "dial"
    /\ IF ConnectOk(mongo.uri)
       THEN /\ made < MaxClients
            /\ made' = made + 1
            /\ Goes(g, connectNext([procs[g] EXCEPT !.client = made + 1]))
       ELSE /\ made' = made
            /\ Goes(g, connectReturns(procs[g], ErrConnect))
    /\ UNCHANGED <<notDb, environ, server, lib, mongo>>

\* connect, lines 113-118: the new client is pinged
ConnectPing ==
  \E g \in Goroutines :
    /\ procs[g].pc = "cping"
    /\ Goes(g, IF PingOk(procs[g].client) THEN connectNext(procs[g])
               ELSE connectReturns(procs[g], ErrPing))
    /\ UNCHANGED <<notDb, environ, server, made, lib, mongo>>

\* connect, line 121: m.client = client
StoreClient ==
  \E g \in Goroutines :
    /\ procs[g].pc = "store"
    /\ mongo' = [mongo EXCEPT !.client = procs[g].client]
    /\ Goes(g, connectNext(procs[g]))
    /\ UNCHANGED <<notDb, environ, server, made, lib>>

\* connect, line 122: m.database = client.Database(dbName)
StoreDatabase ==
  \E g \in Goroutines :
    /\ procs[g].pc = "storedb"
    /\ mongo' = [mongo EXCEPT !.database = Database(procs[g].client, procs[g].dbName)]
    /\ Goes(g, connectNext(procs[g]))
    /\ UNCHANGED <<notDb, environ, server, made, lib>>

\* the operation proper: GetCollection reads m.database and the command is sent
Issue ==
  \E g \in Goroutines :
    /\ procs[g].pc = "issue"
    /\ Goes(g, [procs[g] EXCEPT !.pc = "return", !.issued = mongo.database,
                                !.err = IF PingOk(mongo.database.client) THEN "" ELSE ErrPing])
    /\ UNCHANGED <<notDb, environ, server, made, lib, mongo>>

\* the method returns to its caller
Return ==
  \E g \in Goroutines :
    /\ procs[g].pc = "return"
    /\ Goes(g, Idle)
    /\ UNCHANGED <<notDb, environ, server, made, lib, mongo>>

\* the server stops answering, or answers again
ServerChanges ==
  /\ server' = ~server
  /\ UNCHANGED <<notDb, environ, made, lib, mongo, procs>>

DbNext ==
  \/ NewMongo
  \/ NewMongoReturn
  \/ Operation
  \/ EnsureConnection
  \/ EnsurePing
  \/ ConnectEnv
  \/ ConnectDial
  \/ ConnectPing
  \/ StoreClient
  \/ StoreDatabase
  \/ Issue
  \/ Return
  \/ ServerChanges

DbSpec == DbInit /\ [][DbNext]_vars

(***************************************************************************)
(* package auth: the token pair (jwt.go)                                   *)
(*                                                                         *)
(* A signed token is its claims and the key of its HS256 signature: the    *)
(* signature verifies under that key and no other.  The clock counts half  *)
(* seconds, so that the truncation of exp and iat to seconds shows.  The   *)
(* strings of a user info are valid UTF-8, which the JSON of the claims    *)
(* carries unchanged.                                                      *)
(***************************************************************************)
\* the bound on the time of a run, in half seconds after its start
MaxClock == 2

\* the values of ACCESS_SECRET and REFRESH_SECRET
Secrets == {"s3cret", "r3fresh"}

\* user infos: a map[string]string
UserInfos ==
  {[k \in {} |-> ""], [k \in {"id"} |-> "7"],
   [k \in {"id", "role"} |-> IF k = "id" THEN "7" ELSE "admin"]}

\* 15 * time.Minute and 7 * 24 * time.Hour, in seconds
AccessTTL == 15 * 60

RefreshTTL == 7 * 24 * 3600

\* the instants of a run: its first half seconds, and the same around the two expiries
Instants ==
  {d + base : d \in 0..MaxClock, base \in {0, 2 * AccessTTL - 1, 2 * RefreshTTL - 1}}

\* jwt.NewNumericDate(t): t truncated to the second
NewNumericDate(t) == t \div 2

ErrTokenExpired == "token is expired"

ErrTokenSignatureInvalid == "signature is invalid"

ErrTokenMalformed == "token is malformed"

\* Claims{UserInfo, RegisteredClaims{ExpiresAt, IssuedAt, Issuer}} at time now
NewClaims(userInfo, now, ttl) ==
  [UserInfo |-> userInfo, ExpiresAt |-> NewNumericDate(now + 2 * ttl),
   IssuedAt |-> NewNumericDate(now), Issuer |-> "user-service"]

\* jwt.NewWithClaims(jwt.SigningMethodHS256, claims).SignedString(key)
SignedString(claims, key) == [claims |-> claims, key |-> key]

\* jwt.ParseWithClaims(tokenStr, claims, keyFunc) at time now: the signature is
\* verified under the key of keyFunc, then exp is compared with the time
ParseWithClaims(token, key, now) ==
  IF token = Garbage THEN [claims |-> NilClaims, err |-> ErrTokenMalformed]
  ELSE IF token.key # key THEN [claims |-> token.claims, err |-> ErrTokenSignatureInvalid]
  ELSE IF ~(now < 2 * token.claims.ExpiresAt) THEN [claims |-> token.claims, err |-> ErrTokenExpired]
  ELSE [claims |-> token.claims, err |-> ""]

\* validateToken, lines 81-94: the claims and the error it returns for a parse
validateResult(parsed) ==
  IF parsed.err = ErrTokenExpired THEN parsed
  ELSE IF parsed.err # "" THEN [claims |-> NilClaims, err |-> parsed.err]
  ELSE parsed

\* validateToken: the key function returns accessSecret
validateToken(tokenStr, now) == validateResult(ParseWithClaims(tokenStr, accessSecret, now))

ValidateAccessToken(tokenStr, now) == validateToken(tokenStr, now)

ValidateRefreshToken(tokenStr, now) == validateToken(tokenStr, now)

AuthInit ==
  /\ accessSecret \in Secrets
  /\ refreshSecret \in Secrets
  /\ clock \in 0..MaxClock
  /\ pair = NoPair
  /\ validation = NoValidation
  /\ CoercionUnused
  /\ DbUnused
  /\ GoUnused

\* GenerateTokenPair(userInfo)
GenerateTokenPair ==
  \E userInfo \in UserInfos :
    /\ pair' = [userInfo |-> userInfo,
                access |-> SignedString(NewClaims(userInfo, clock, AccessTTL), accessSecret),
                refresh |-> SignedString(NewClaims(userInfo, clock, RefreshTTL), refreshSecret)]
    /\ UNCHANGED <<notAuth, accessSecret, refreshSecret, clock, validation>>

\* the token texts a caller passes: those of the last pair, and one that is no token
TokenTexts == {pair.access, pair.refresh, Garbage}

CallValidateAccessToken ==
  \E tokenStr \in TokenTexts :
    /\ validation' = [fn |-> "ValidateAccessToken", token |-> tokenStr, now |-> clock,
                      claims |-> ValidateAccessToken(tokenStr, clock).claims,
                      err |-> ValidateAccessToken(tokenStr, clock).err]
    /\ UNCHANGED <<notAuth, accessSecret, refreshSecret, clock, pair>>

CallValidateRefreshToken ==
  \E tokenStr \in TokenTexts :
    /\ validation' = [fn |-> "ValidateRefreshToken", token |-> tokenStr, now |-> clock,
                      claims |-> ValidateRefreshToken(tokenStr, clock).claims,
                      err |-> ValidateRefreshToken(tokenStr, clock).err]
    /\ UNCHANGED <<notAuth, accessSecret, refreshSecret, clock, pair>>

\* time passes
Advance ==
  \E t \in Instants :
    /\ t > clock
    /\ clock' = t
    /\ UNCHANGED <<notAuth, accessSecret, refreshSecret, pair, validation>>

AuthNext ==
  \/ GenerateTokenPair
  \/ CallValidateAccessToken
  \/ CallValidateRefreshToken
  \/ Advance

AuthSpec == AuthInit /\ [][AuthNext]_vars

(***************************************************************************)
(* Concurrent calls of the coercion functions                              *)
(*                                                                         *)
(* The functions of parse.go use no package variable: each works on its    *)
(* arguments and its locals.  parseTimeFromString is taken step by step,   *)
(* with its locals str and commonFormats and the position of its loop in   *)
(* the frame of the call; the other functions, which have no loop over a   *)
(* table, take one step.                                                   *)
(***************************************************************************)
\* the texts and the values of the concurrent calls, each one of Values
GoTexts == {"   ", " 2024-10-14 ", "1.5"}

GoValues ==
  {[Val("float64") EXCEPT !.f = Float(FALSE, "2", "345")]}
    \cup {[Val("string") EXCEPT !.s = x] : x \in GoTexts}

GoFormats == {<<>>, <<TimeFormatUnixMilli, TimeFormatDate>>}

\* the calls a goroutine can make: function, argument, formats, mode, decimalPlaces
GoCalls ==
  {[fn |-> f, v |-> x, formats |-> <<>>, mode |-> RoundNone, places |-> 0] :
     f \in {"ParseString", "ParseInt", "ParseFloat64", "ParseBool"}, x \in GoValues}
    \cup {[fn |-> "ParseFloat64Round", v |-> x, formats |-> <<>>, mode |-> RoundAuto, places |-> 2] :
            x \in GoValues}
    \cup {[fn |-> "ParseTime", v |-> x, formats |-> l, mode |-> RoundNone, places |-> 0] :
            x \in GoValues, l \in GoFormats}

\* whether the call c panics, and the value it returns, by the function it names
panicsOf(c) ==
  CASE c.fn = "ParseString" -> ParseStringPanics(c.v)
    [] c.fn \in {"ParseFloat64", "ParseFloat64Round"} -> ParseFloat64Panics(c.v)
    [] c.fn = "ParseTime" -> ParseTimePanics(c.v)
    [] OTHER -> FALSE

resultOf(c) ==
  CASE c.fn = "ParseString" -> ParseString(c.v)
    [] c.fn = "ParseInt" -> ParseInt(c.v)
    [] c.fn = "ParseFloat64" -> ParseFloat64(c.v)
    [] c.fn = "ParseFloat64Round" -> ParseFloat64Round(c.v, c.mode, c.places)
    [] c.fn = "ParseBool" -> ParseBool(c.v)
    [] c.fn = "ParseTime" -> ParseTime(c.v, c.formats)

\* the call c started by a goroutine
started(c) ==
  [pc |-> IF c.fn = "ParseTime" /\ c.v.kind = "string" THEN "trim" ELSE "body", fn |-> c.fn,
   v |-> c.v, formats |-> c.formats, mode |-> c.mode, places |-> c.places, res |-> "",
   outcome |-> "running"]

\* the call c returns value
returned(c, value) == [c EXCEPT !.pc = "done", !.res = value, !.outcome = "returned"]

\* a variant of frameOf with one frame for all calls, as package variables would be
frameOfShared(g) == "g1"

\* the frame that holds the locals of the call of goroutine g: its own
frameOf(g) == g

\* the locals of the call of goroutine g
local(g) == frames[frameOf(g)]

\* goroutine g goes on as c, its locals being f
GoesOn(g, c, f) ==
  /\ calls' = [calls EXCEPT ![g] = c]
  /\ frames' = [frames EXCEPT ![frameOf(g)] = f]

GoInit ==
  /\ calls = [g \in Goroutines |-> NoCall]
  /\ frames = [g \in Goroutines |-> NoFrame]
  /\ CoercionUnused
  /\ DbUnused
  /\ AuthUnused

\* a goroutine calls a function; the text of ParseTime is passed as str
GoCall ==
  \E g \in Goroutines :
    /\ calls[g].pc = "idle"
    /\ \E c \in GoCalls :
         GoesOn(g, started(c), [NoFrame EXCEPT !.str = IF c.v.kind = "string" THEN c.v.s ELSE ""])
    /\ UNCHANGED notGo

\* a function other than ParseTime on a text: its whole body
GoBody ==
  \E g \in Goroutines :
    /\ calls[g].pc = "body"
    /\ GoesOn(g, IF panicsOf(calls[g])
                 THEN [calls[g] EXCEPT !.pc = "done", !.outcome = "panicked"]
                 ELSE returned(calls[g], resultOf(calls[g])),
              local(g))
    /\ UNCHANGED notGo

\* the position after str was trimmed, lines 369-376
afterTrim(str, formats) ==
  IF str = "" THEN "empty" ELSE IF Len(formats) > 0 THEN "custom" ELSE "table"

\* parseTimeFromString, line 368: str = strings.TrimSpace(str)
GoTrim ==
  \E g \in Goroutines :
    /\ calls[g].pc = "trim"
    /\ GoesOn(g, [calls[g] EXCEPT !.pc = afterTrim(TrimSpace(local(g).str), calls[g].formats)],
              [local(g) EXCEPT !.str = TrimSpace(local(g).str)])
    /\ UNCHANGED notGo

\* line 370: return time.Time{}
GoEmpty ==
  \E g \in Goroutines :
    /\ calls[g].pc = "empty"
    /\ GoesOn(g, returned(calls[g], ZeroTime), local(g))
    /\ UNCHANGED notGo

\* line 375: return parseCustomFormats(str, formats...)
GoCustom ==
  \E g \in Goroutines :
    /\ calls[g].pc = "custom"
    /\ GoesOn(g, returned(calls[g], parseCustomFormats(local(g).str, calls[g].formats)), local(g))
    /\ UNCHANGED notGo

\* lines 379-413: commonFormats := []string{...}
GoTable ==
  \E g \in Goroutines :
    /\ calls[g].pc = "table"
    /\ GoesOn(g, [calls[g] EXCEPT !.pc = "loop"],
              [local(g) EXCEPT !.commonFormats = commonFormats, !.i = 1])
    /\ UNCHANGED notGo

\* one turn of the loop: the call returns the instant of r, or the loop moves on
loopTurn(g, r) ==
  IF r.ok THEN GoesOn(g, returned(calls[g], r.t), local(g))
  ELSE GoesOn(g, calls[g], [local(g) EXCEPT !.i = local(g).i + 1])

\* lines 415-419: time.Parse(format, str) for the next format of commonFormats
GoLoop ==
  \E g \in Goroutines :
    /\ calls[g].pc = "loop"
    /\ local(g).i \in DOMAIN local(g).commonFormats
    /\ loopTurn(g, TimeParse(local(g).commonFormats[local(g).i], local(g).str))
    /\ UNCHANGED notGo

\* the loop has run through commonFormats
GoLoopEnd ==
  \E g \in Goroutines :
    /\ calls[g].pc = "loop"
    /\ local(g).i \notin DOMAIN local(g).commonFormats
    /\ GoesOn(g, [calls[g] EXCEPT !.pc = "unix"], local(g))
    /\ UNCHANGED notGo

\* lines 421-426: the text as a Unix timestamp
GoUnix ==
  \E g \in Goroutines :
    /\ calls[g].pc = "unix"
    /\ GoesOn(g, returned(calls[g], unixOrZero(parseUnixTimestamp(local(g).str, ""))), local(g))
    /\ UNCHANGED notGo

\* the caller has the result; the frame is gone
GoReturn ==
  \E g \in Goroutines :
    /\ calls[g].pc = "done"
    /\ GoesOn(g, NoCall, NoFrame)
    /\ UNCHANGED notGo

GoNext ==
  \/ GoCall
  \/ GoBody
  \/ GoTrim
  \/ GoEmpty
  \/ GoCustom
  \/ GoTable
  \/ GoLoop
  \/ GoLoopEnd
  \/ GoUnix
  \/ GoReturn

GoSpec == GoInit /\ [][GoNext]_vars

(***************************************************************************)
(* The state machine: one call of one coercion function on one input       *)
(***************************************************************************)
Init ==
  /\ fn = "none"
  /\ arg \in Values
  /\ fmts = <<>>
  /\ mode = RoundNone
  /\ places = 0
  /\ res = ""
  /\ outcome = "idle"
  /\ DbUnused
  /\ AuthUnused
  /\ GoUnused

\* a call that returns value unless the run-time panics
Call(name, panics, value) ==
  /\ fn = "none"
  /\ fn' = name
  /\ outcome' = IF panics THEN "panicked" ELSE "returned"
  /\ res' = IF panics THEN "" ELSE value
  /\ arg' = arg
  /\ UNCHANGED notCoercion

CallParseString ==
  /\ Call("ParseString", ParseStringPanics(arg), ParseString(arg))
  /\ UNCHANGED <<fmts, mode, places>>

CallParseInt ==
  /\ Call("ParseInt", FALSE, ParseInt(arg))
  /\ UNCHANGED <<fmts, mode, places>>

CallParseFloat64 ==
  /\ arg \in FloatInputs
  /\ Call("ParseFloat64", ParseFloat64Panics(arg), ParseFloat64(arg))
  /\ UNCHANGED <<fmts, mode, places>>

CallParseFloat64Round ==
  \E m \in Modes, d \in (-MaxPlaces)..MaxPlaces :
    /\ arg \in FloatInputs
    /\ Call("ParseFloat64Round", ParseFloat64Panics(arg), ParseFloat64Round(arg, m, d))
    /\ mode' = m
    /\ places' = d
    /\ UNCHANGED fmts

CallParseFloat64RoundUp ==
  \E d \in (-MaxPlaces)..MaxPlaces :
    /\ arg \in FloatInputs
    /\ Call("ParseFloat64RoundUp", ParseFloat64Panics(arg), ParseFloat64RoundUp(arg, d))
    /\ places' = d
    /\ UNCHANGED <<fmts, mode>>

CallParseFloat64RoundDown ==
  \E d \in (-MaxPlaces)..MaxPlaces :
    /\ arg \in FloatInputs
    /\ Call("ParseFloat64RoundDown", ParseFloat64Panics(arg), ParseFloat64RoundDown(arg, d))
    /\ places' = d
    /\ UNCHANGED <<fmts, mode>>

CallParseFloat64RoundAuto ==
  \E d \in (-MaxPlaces)..MaxPlaces :
    /\ arg \in FloatInputs
    /\ Call("ParseFloat64RoundAuto", ParseFloat64Panics(arg), ParseFloat64RoundAuto(arg, d))
    /\ places' = d
    /\ UNCHANGED <<fmts, mode>>

CallParseBool ==
  /\ Call("ParseBool", FALSE, ParseBool(arg))
  /\ UNCHANGED <<fmts, mode, places>>

CallParseTime ==
  \E formats \in FormatLists :
    /\ Call("ParseTime", ParseTimePanics(arg), ParseTime(arg, formats))
    /\ fmts' = formats
    /\ UNCHANGED <<mode, places>>

Next ==
  \/ CallParseString
  \/ CallParseInt
  \/ CallParseFloat64
  \/ CallParseFloat64Round
  \/ CallParseFloat64RoundUp
  \/ CallParseFloat64RoundDown
  \/ CallParseFloat64RoundAuto
  \/ CallParseBool
  \/ CallParseTime

Spec == Init /\ [][Next]_vars

(***************************************************************************)
(* Properties.  What a property expects is written from its statement:     *)
(* an instant n units after the epoch is computed by floor division, not   *)
(* by the functions of parse.go.                                           *)
(***************************************************************************)
\* the instant n * 10^-k seconds after the epoch: k = 0 for seconds, 3 for
\* milliseconds, 6 for microseconds, 9 for nanoseconds
SinceEpoch(n, k) ==
  LET q == BigQuoPow10(n, k)
      r == BigRemPow10(n, k)
  IN  IF r < 0 THEN Instant(BigSub(q, BigOf(1)), (r + 10^k) * 10^(9 - k))
      ELSE Instant(q, r * 10^(9 - k))

\* the instant f seconds after the epoch, f a decimal with at most nine fraction digits
FloatSinceEpoch(f) ==
  LET whole == Big(f.neg, f.ip)
      frac  == DigitsNat(Upto(f.fp \o Zeros(9), 9))
  IN  IF f.neg /\ frac > 0 THEN Instant(BigSub(whole, BigOf(1)), 1000000000 - frac)
      ELSE Instant(whole, frac)

\* the unit the magnitude of the integer n selects
ByMagnitude(n) ==
  IF BigGt(n, BigPow10(18)) THEN SinceEpoch(n, 9)
  ELSE IF BigGt(n, BigPow10(15)) THEN SinceEpoch(n, 6)
  ELSE IF BigGt(n, BigPow10(12)) THEN SinceEpoch(n, 3)
  ELSE SinceEpoch(n, 0)

\* the digits of a pseudo-unit format
UnitDigits(format) ==
  CASE format = TimeFormatUnix -> 0
    [] format = TimeFormatUnixMilli -> 3
    [] format = TimeFormatUnixMicro -> 6
    [] format = TimeFormatUnixNano -> 9

\* the text of a ParseTime call on a string, as the string algorithm reads it
Text == TrimSpace(arg.s)

TimeOfText == fn = "ParseTime" /\ arg.kind = "string"

\* the explicit format f parses the text s: a layout when time.Parse succeeds, a
\* pseudo-unit when s is a number
FormatParses(f, s) ==
  IF f \in UnitFormats THEN ParseIntText(s).ok \/ ParseFloatText(s).ok
  ELSE TimeParse(f, s).ok

\* the instant the explicit format f gives for the text s
FormatParse(f, s) ==
  IF f \in UnitFormats THEN parseUnixTimestamp(s, f) ELSE TimeParse(f, s).t

\* C1: every coercion function returns a value for every input; none panics.
C1_Totality == fn # "none" => outcome = "returned"

\* an integer text that no layout of the default table parses, and no explicit formats
C2_Case ==
  /\ TimeOfText
  /\ fmts = <<>>
  /\ ParseIntText(Text).ok
  /\ ~firstLayout(commonFormats, Text, 1).ok

\* C2: with no explicit formats, a text that matches no layout of the default table
\* and is the integer N gives N nanoseconds since the epoch when N > 10^18,
\* N microseconds when 10^15 < N <= 10^18, N milliseconds when 10^12 < N <= 10^15
\* and N seconds otherwise.
C2_MagnitudeDisambiguation ==
  C2_Case => outcome = "returned" /\ res = ByMagnitude(ParseIntText(Text).val)

\* 10^15 + 1 is read as microseconds
C2_Witness ==
  /\ C2_Case
  /\ arg.s = "1000000000000001"
  /\ res = Instant(Big(FALSE, "1000000000"), 1000)

\* a non-empty text and explicit formats none of which parses it
C3_Case ==
  /\ TimeOfText
  /\ Text # ""
  /\ Len(fmts) > 0
  /\ \A i \in DOMAIN fmts : ~FormatParses(fmts[i], Text)

\* C3: with explicit formats none of which parses a non-empty text, the result is
\* the zero instant, whatever the default table or the magnitude rule would give.
C3_ExplicitFormatsExclusive == C3_Case => outcome = "returned" /\ res = ZeroTime

\* C4: with explicit formats, the result is the parse of the text under the first
\* format of the list that parses it.
C4_FirstSuccessWins ==
  (TimeOfText /\ Text # "" /\ \E i \in DOMAIN fmts : FormatParses(fmts[i], Text))
    => LET first == CHOOSE i \in DOMAIN fmts :
                      /\ FormatParses(fmts[i], Text)
                      /\ \A j \in 1..(i - 1) : ~FormatParses(fmts[j], Text)
       IN  res = FormatParse(fmts[first], Text)

\* an integer text under one pseudo-unit format
C5_Case ==
  /\ TimeOfText
  /\ Len(fmts) = 1
  /\ fmts[1] \in UnitFormats
  /\ ParseIntText(Text).ok

\* C5: under one pseudo-unit format, a text that is the integer N gives the instant
\* N seconds, milliseconds, microseconds or nanoseconds after the epoch.
C5_UnitScaling ==
  C5_Case => outcome = "returned" /\ res = SinceEpoch(ParseIntText(Text).val, UnitDigits(fmts[1]))

\* -1500 milliseconds is 1.5 seconds before the epoch
C5_Witness ==
  /\ C5_Case
  /\ arg.s = "-1500"
  /\ fmts = <<TimeFormatUnixMilli>>
  /\ res = Instant(Big(TRUE, "2"), 500000000)

\* C6: a native integer n of any width and signedness gives the instant n seconds
\* after the epoch, with or without explicit formats.
C6_NativeIntegerSeconds ==
  (fn = "ParseTime" /\ arg.kind \in SignedKinds \cup UnsignedKinds)
    => outcome = "returned" /\ res = SinceEpoch(arg.i, 0)

\* C7: with no explicit formats, a native integer that is a timestamp in
\* milliseconds (10^12 < n <= 10^15) gives the instant n milliseconds after the
\* epoch, as the text of n does.
C7_NativeMillisecondsDetected ==
  (/\ fn = "ParseTime"
   /\ fmts = <<>>
   /\ arg.kind \in {"int", "int64"}
   /\ BigGt(arg.i, BigPow10(12))
   /\ ~BigGt(arg.i, BigPow10(15)))
    => res = SinceEpoch(arg.i, 3)

\* the text is two digits, a slash, two digits, a slash and four digits
IsSlashDate(s) ==
  /\ Len(s) = 10
  /\ At(s, 3) = "/"
  /\ At(s, 6) = "/"
  /\ AllDigits(SubSeq(s, 1, 2) \o SubSeq(s, 4, 5) \o SubSeq(s, 7, 10))

\* midnight UTC of a civil date, if there is such a date
IsCivilDate(year, month, day) == month \in 1..12 /\ day \in 1..daysIn(month, year)

Midnight(year, month, day) ==
  Instant(BigMulSmall(BigOf(daysSinceEpoch(year, month, day)), 86400), 0)

\* a text NN/NN/YYYY and no explicit formats
C8_Case == TimeOfText /\ fmts = <<>> /\ IsSlashDate(Text)

\* C8: with no explicit formats, a text NN/NN/YYYY is read month-first whenever that
\* is a date, day-first only when it is not, and as no date otherwise.
C8_MonthFirst ==
  C8_Case =>
    LET a == DigitsNat(SubSeq(Text, 1, 2))
        b == DigitsNat(SubSeq(Text, 4, 5))
        y == DigitsNat(SubSeq(Text, 7, 10))
    IN  /\ outcome = "returned"
        /\ res = IF IsCivilDate(y, a, b) THEN Midnight(y, a, b)
                 ELSE IF IsCivilDate(y, b, a) THEN Midnight(y, b, a)
                 ELSE ZeroTime

\* 01/02/2006 is January 2, not February 1
C8_Witness ==
  /\ C8_Case
  /\ arg.s = "01/02/2006"
  /\ res = Instant(Big(FALSE, "1136160000"), 0)

\* C9: with no explicit formats, a text that a layout constant of constants.go
\* parses gives the instant one of those layouts denotes for it.
C9_DefaultTableCoverage ==
  (TimeOfText /\ fmts = <<>>)
    => \A i \in DOMAIN LayoutConstants :
         TimeParse(LayoutConstants[i], Text).ok
           => \E j \in DOMAIN LayoutConstants :
                /\ TimeParse(LayoutConstants[j], Text).ok
                /\ res = TimeParse(LayoutConstants[j], Text).t

\* a non-empty text and no explicit formats
C10_Case == TimeOfText /\ fmts = <<>> /\ Text # ""

\* C10: with no explicit formats, a non-empty text gives the instant of the first
\* layout of the default table that parses it; if there is none and the text is an
\* integer, the instant its magnitude selects; if it is no integer but a decimal,
\* that many seconds after the epoch; and the zero instant otherwise.
C10_FallbackOrder ==
  C10_Case =>
    /\ outcome = "returned"
    /\ res = IF \E i \in DOMAIN commonFormats : TimeParse(commonFormats[i], Text).ok
               THEN TimeParse(commonFormats[
                      CHOOSE i \in DOMAIN commonFormats :
                        /\ TimeParse(commonFormats[i], Text).ok
                        /\ \A j \in 1..(i - 1) : ~TimeParse(commonFormats[j], Text).ok], Text).t
             ELSE IF ParseIntText(Text).ok THEN ByMagnitude(ParseIntText(Text).val)
             ELSE IF ParseFloatText(Text).ok THEN FloatSinceEpoch(ParseFloatText(Text).val)
             ELSE ZeroTime

\* the eight digits 20241014 are a date, not seconds
C10_Witness ==
  /\ C10_Case
  /\ arg.s = "20241014"
  /\ res = Instant(Big(FALSE, "1728864000"), 0)

\* C11: ParseInt of an integer of any kind, signed or unsigned and of any width,
\* whose value n fits the 64-bit signed range, returns n.
C11_IntegerPassThrough ==
  (fn = "ParseInt" /\ arg.kind \in SignedKinds \cup UnsignedKinds /\ InInt64(arg.i))
    => res = arg.i

\* C12: ParseInt of a float returns the float truncated toward zero: the integer of
\* the same sign whose magnitude is the whole part of the float's magnitude.
C12_FloatTruncation ==
  (fn = "ParseInt" /\ arg.kind \in FloatKinds) => res = Big(arg.f.neg, arg.f.ip)

\* -2.75 gives -2
C12_Witness ==
  /\ fn = "ParseInt"
  /\ arg.kind \in FloatKinds
  /\ arg.f = Float(TRUE, "2", "75")
  /\ res = Big(TRUE, "2")

\* the text s is a base-10 integer as a whole: an optional sign, then digits only
IsWholeInteger(s) ==
  LET body == IF Len(s) > 0 /\ At(s, 1) \in {"+", "-"} THEN From(s, 2) ELSE s
  IN  Len(body) > 0 /\ \A i \in 1..Len(body) : At(body, i) \in {"0", "1", "2", "3", "4", "5", "6", "7", "8", "9"}

\* the integer a whole base-10 integer text denotes
IntegerOf(s) ==
  IF At(s, 1) = "-" THEN Big(TRUE, From(s, 2))
  ELSE IF At(s, 1) = "+" THEN Big(FALSE, From(s, 2))
  ELSE Big(FALSE, s)

\* ParseInt of something that is neither an integer nor a float
C13_Case == fn = "ParseInt" /\ arg.kind \notin SignedKinds \cup UnsignedKinds \cup FloatKinds

\* C13: ParseInt of a text returns the integer the text denotes when the whole text
\* is a base-10 integer, and 0 otherwise (surrounding whitespace, a decimal point,
\* any non-digit character, the empty text); it returns 0 for every input that is
\* neither a number nor a text.
C13_StrictText ==
  C13_Case =>
    res = IF arg.kind = "string" /\ IsWholeInteger(arg.s) THEN IntegerOf(arg.s) ELSE BigZero

\* a number between spaces gives 0
C13_Witness ==
  /\ C13_Case
  /\ arg.kind = "string"
  /\ arg.s = " 1697297045 "
  /\ res = BigZero

\* the text t is a decimal number: an optional sign, digits with at most one point,
\* at least one digit
IsNumber(t) ==
  LET body   == IF Len(t) > 0 /\ At(t, 1) \in {"+", "-"} THEN From(t, 2) ELSE t
      points == {i \in 1..Len(body) : At(body, i) = "."}
  IN  /\ Cardinality(points) <= 1
      /\ Cardinality(points) < Len(body)
      /\ \A i \in (1..Len(body)) \ points : IsDigitChar(At(body, i))

\* one of its digits is not 0
IsNonzero(t) == \E i \in 1..Len(t) : At(t, i) \in {"1", "2", "3", "4", "5", "6", "7", "8", "9"}

\* the text of a ParseBool call, trimmed and lower-cased
BoolText == ToLower(TrimSpace(arg.s))

C14_Case == fn = "ParseBool" /\ arg.kind = "string"

\* C14: ParseBool of a text, trimmed and lower-cased, is true for true, t, yes, y, on
\* and 1, false for false, f, no, n, off, 0 and the empty text, and otherwise true
\* exactly when the text is a number other than zero.
C14_TextTruth ==
  C14_Case =>
    res = IF BoolText \in {"true", "t", "yes", "y", "on", "1"} THEN TRUE
          ELSE IF BoolText \in {"false", "f", "no", "n", "off", "0", ""} THEN FALSE
          ELSE IsNumber(BoolText) /\ IsNonzero(BoolText)

\* upper case between spaces
C14_Witness ==
  /\ C14_Case
  /\ arg.s = " Yes "
  /\ res = TRUE

\* ParseBool of something that is not nil, a boolean, a number or a text
C15_Case ==
  /\ fn = "ParseBool"
  /\ arg.kind \notin {"nil", "bool", "string"} \cup SignedKinds \cup UnsignedKinds \cup FloatKinds

\* C15: ParseBool of a value that is not nil, a boolean, a number or a text is false
\* exactly when the value is the empty or default value of its type (a sequence or
\* mapping without elements, a record whose fields are all zero), and true otherwise.
C15_EmptyIsFalse == C15_Case => res = ~arg.empty

\* a ParseString call that returned
C16_Case == fn = "ParseString" /\ outcome = "returned"

\* the rendering of a text, an integer, a float or a boolean: a float is rendered
\* as its shortest decimal at its own width
Rendering(v) ==
  IF v.kind \in {"string", "float32"} THEN v.s
  ELSE IF v.kind = "bool" THEN (IF v.b THEN "true" ELSE "false")
  ELSE IF v.kind = "float64"
    THEN (IF v.f.neg THEN "-" ELSE "") \o v.f.ip \o (IF v.f.fp = "" THEN "" ELSE "." \o v.f.fp)
  ELSE (IF v.i.neg THEN "-" ELSE "") \o v.i.mag

\* C16: ParseString gives "" for nil and their rendering for texts, integers, floats
\* and booleans; for any other value the first of these that applies: the hex form of
\* an ObjectID; the String() of a value that has one, also when the value is a
\* record, a mapping or a sequence; the JSON of a record, mapping or sequence that
\* serializes; the generic rendering.
C16_DispatchPriority ==
  C16_Case =>
    res = IF arg.kind = "nil" THEN ""
          ELSE IF arg.kind \in {"string", "bool"} \cup SignedKinds \cup UnsignedKinds \cup FloatKinds
            THEN Rendering(arg)
          ELSE IF arg.kind = "objectid" THEN arg.s
          ELSE IF IsStringer(arg) THEN arg.str
          ELSE IF arg.agg /\ arg.jsonOk THEN arg.json
          ELSE arg.p

\* a record with a String method that also serializes gives its String()
C16_Witness ==
  /\ C16_Case
  /\ arg.kind = "stringer"
  /\ arg.agg
  /\ arg.jsonOk
  /\ arg.json # arg.str
  /\ res = "custom"

\* the text returned by ParseString, as an input
Returned == [Val("string") EXCEPT !.s = res]

\* C17, as stated: ParseInt of the text ParseString gives for a 64-bit signed integer
\* n is n, and ParseFloat64 of the text ParseString gives for a float f, of 64 or of
\* 32 bits, is ParseFloat64(f).
C17_RoundTrip ==
  fn = "ParseString" =>
    /\ arg.kind \in SignedKinds => ParseInt(Returned) = arg.i
    /\ arg.kind \in FloatKinds => ParseFloat64(Returned) = ParseFloat64(arg)

\* C17, amended: ParseInt of the text ParseString gives for a 64-bit signed integer
\* n is n, and ParseFloat64 of the text ParseString gives for a 64-bit float f is f.
C17_RoundTrip64 ==
  fn = "ParseString" =>
    /\ arg.kind \in SignedKinds => ParseInt(Returned) = arg.i
    /\ arg.kind = "float64" => ParseFloat64(Returned) = ParseFloat64(arg)

\* a negative float with a fraction comes back
C17_Witness ==
  /\ fn = "ParseString"
  /\ arg.kind = "float64"
  /\ res = "-2.75"
  /\ ParseFloat64(Returned) = Float(TRUE, "2", "75")

\* the float f as an integer number of units 10^-digits
Units(f, digits) == Big(f.neg, f.ip \o f.fp \o Zeros(digits - Len(f.fp)))

Magnitude(n) == Big(FALSE, n.mag)

\* r = ceil(x * 10^p) / 10^p: a multiple of 10^-p with x <= r < x + 10^-p, where
\* X, R and step are x, r and 10^-p in a common unit
IsCeil(X, R, step) == ~BigGt(X, R) /\ BigGt(BigAdd(X, step), R)

\* r = floor(x * 10^p) / 10^p
IsFloor(X, R, step) == ~BigGt(R, X) /\ BigGt(BigAdd(R, step), X)

\* r = round(x * 10^p) / 10^p, halves away from zero: r is within half a step of
\* x, and at exactly half a step it is the one farther from zero
IsRoundHalfAway(X, R, step) ==
  LET twice == Magnitude(BigAdd(BigSub(R, X), BigSub(R, X)))
  IN  BigGt(step, twice) \/ (twice = step /\ BigGt(Magnitude(R), Magnitude(X)))

\* r is x rounded to p decimal places under the mode
IsRounded(m, x, r, p) ==
  LET digits == IF Len(x.fp) > p THEN Len(x.fp) ELSE p
      X      == Units(x, digits)
      R      == Units(r, digits)
      step   == BigPow10(digits - p)
  IN  IF m = RoundNone THEN r = x
      ELSE /\ Len(r.fp) <= p
           /\ IF m = RoundUp THEN IsCeil(X, R, step)
              ELSE IF m = RoundDown THEN IsFloor(X, R, step)
              ELSE IsRoundHalfAway(X, R, step)

\* a ParseFloat64Round call with one of the four modes and p >= 0
C18_Case ==
  /\ fn = "ParseFloat64Round"
  /\ outcome = "returned"
  /\ mode \in RoundNone..RoundAuto
  /\ places >= 0

\* C18: with x = ParseFloat64(v), p >= 0 and m = 10^p, ParseFloat64Round(v, mode, p)
\* is x for RoundNone, ceil(x*m)/m for RoundUp, floor(x*m)/m for RoundDown and
\* x*m rounded to the nearest integer, halves away from zero, over m for RoundAuto.
C18_RoundingModes == C18_Case => IsRounded(mode, ParseFloat64(arg), res, places)

\* round(2.345, auto, 2) = 2.35
C18_Witness ==
  /\ C18_Case
  /\ arg.kind = "float64"
  /\ arg.f = Float(FALSE, "2", "345")
  /\ mode = RoundAuto
  /\ places = 2
  /\ res = Float(FALSE, "2", "35")

\* the rounding of a call: of the function called directly, or the mode passed
RoundingOf ==
  IF fn = "ParseFloat64RoundUp" THEN RoundUp
  ELSE IF fn = "ParseFloat64RoundDown" THEN RoundDown
  ELSE IF fn = "ParseFloat64RoundAuto" THEN RoundAuto
  ELSE mode

\* a rounding up, down or to the nearest with a negative number of places
C19_Case ==
  /\ fn \in {"ParseFloat64Round", "ParseFloat64RoundUp", "ParseFloat64RoundDown",
             "ParseFloat64RoundAuto"}
  /\ outcome = "returned"
  /\ RoundingOf \in {RoundUp, RoundDown, RoundAuto}
  /\ places < 0

\* C19: rounding up, down or to the nearest with a negative number of decimal
\* places, directly or through ParseFloat64Round, gives what rounding to 0 places
\* gives: the value rounded to an integer under the mode.
C19_NegativePlacesClamp == C19_Case => IsRounded(RoundingOf, ParseFloat64(arg), res, 0)

\* ParseFloat64RoundDown(-2.75, -1) = -3
C19_Witness ==
  /\ C19_Case
  /\ fn = "ParseFloat64RoundDown"
  /\ arg.f = Float(TRUE, "2", "75")
  /\ res = Float(TRUE, "3", "")

\* ParseTime of nil, of an instant or of a pointer to one
C20_Case == fn = "ParseTime" /\ arg.kind \in {"nil", "time", "timeptr"}

\* C20: ParseTime returns an instant as it is and the instant a non-nil pointer
\* points to, whatever the formats; for nil and for a nil pointer to an instant it
\* returns the zero instant.
C20_InstantPassThrough ==
  C20_Case =>
    /\ outcome = "returned"
    /\ res = IF arg.kind = "nil" \/ (arg.kind = "timeptr" /\ arg.nilp) THEN ZeroTime ELSE arg.t

\* an instant passed with formats that would not parse its text
C20_Witness ==
  /\ C20_Case
  /\ arg.kind = "time"
  /\ fmts = <<TimeFormatDateUS, TimeFormatUnix>>
  /\ arg.t = Instant(Big(FALSE, "1728918245"), 123000000)
  /\ res = arg.t

\* the text s is empty or made of spaces only
IsBlank(s) == \A i \in 1..Len(s) : At(s, i) = " "

\* ParseTime of a blank text, or of a value that is no text, number or instant and
\* that ParseString renders as the empty text
C21_Case ==
  /\ fn = "ParseTime"
  /\ \/ arg.kind = "string" /\ IsBlank(arg.s)
     \/ /\ arg.kind \notin {"string", "time", "timeptr"} \cup SignedKinds \cup UnsignedKinds
                             \cup FloatKinds
        /\ ~ParseStringPanics(arg)
        /\ ParseString(arg) = ""

\* C21: ParseTime returns the zero instant, with or without explicit formats, for a
\* text that is empty or only white space and for a value that is no text, number
\* or instant and whose ParseString is the empty text.
C21_BlankIsZero == C21_Case => outcome = "returned" /\ res = ZeroTime

\* a Stringer whose String() is empty, with explicit formats
C21_Witness ==
  /\ C21_Case
  /\ arg.kind = "stringer"
  /\ fmts = <<TimeFormatUnix>>
  /\ res = ZeroTime

\* a text under one explicit format that is none of the four unit selectors
C27_Case == TimeOfText /\ Text # "" /\ Len(fmts) = 1 /\ fmts[1] \notin UnitFormats

\* C27: an explicit format other than "unix", "unix-milli", "unix-micro" and
\* "unix-nano", also one that starts with "unix", is a layout: the result is what
\* time.Parse gives under it, and the zero instant when the layout does not parse
\* the text; the text is never read as a number of seconds or by its magnitude.
C27_OnlyFourSelectors ==
  C27_Case =>
    res = IF TimeParse(fmts[1], Text).ok THEN TimeParse(fmts[1], Text).t ELSE ZeroTime

\* a negative integer text that no layout of the default table parses, and no
\* explicit formats
C28_Case ==
  /\ TimeOfText
  /\ fmts = <<>>
  /\ IsWholeInteger(Text)
  /\ At(Text, 1) = "-"
  /\ InInt64(IntegerOf(Text))
  /\ \A i \in DOMAIN commonFormats : ~TimeParse(commonFormats[i], Text).ok

\* C28: with no explicit formats, a negative integer text N that no layout parses
\* gives the instant N seconds after the epoch, whatever the magnitude of N.
C28_SignedMagnitude == C28_Case => res = Instant(IntegerOf(Text), 0)

\* -(10^15) is seconds
C28_Witness ==
  /\ C28_Case
  /\ arg.s = "-1000000000000000"
  /\ res = Instant(Big(TRUE, "1000000000000000"), 0)

\* one explicit pseudo-unit format and a decimal text with a fraction point
C29_Case ==
  /\ TimeOfText
  /\ Len(fmts) = 1
  /\ fmts[1] \in UnitFormats
  /\ ~IsWholeInteger(Text)
  /\ ParseFloatText(Text).ok

\* C29: with an explicit pseudo-unit format, a text that is not an integer but reads
\* as a float is taken as fractional seconds, whichever of the four units is named.
C29_FloatIgnoresUnit == C29_Case => res = FloatSinceEpoch(ParseFloatText(Text).val)

\* 1697297045.5 under unix-milli is 1697297045 seconds and a half
C29_Witness ==
  /\ C29_Case
  /\ arg.s = "1697297045.5"
  /\ fmts = <<TimeFormatUnixMilli>>
  /\ res = Instant(Big(FALSE, "1697297045"), 500000000)

(***************************************************************************)
(* Claims about package db, under DbSpec                                   *)
(***************************************************************************)
\* the fields of the handle a step of a method reads and writes
Reads(pc) ==
  IF pc \in {"ensure", "ping"} THEN {"client"} ELSE IF pc = "issue" THEN {"database"} ELSE {}

Writes(pc) ==
  IF pc = "store" THEN {"client"} ELSE IF pc = "storedb" THEN {"database"} ELSE {}

\* two goroutines are about to touch the same field, one of them writing it
Races ==
  \E g, h \in Goroutines :
    /\ g # h
    /\ Writes(procs[g].pc) \cap (Reads(procs[h].pc) \cup Writes(procs[h].pc)) # {}

\* no goroutine is inside a method of the handle
Quiet == \A g \in Goroutines : procs[g].pc = "idle"

\* C23: goroutines that use one handle never touch its client or database field
\* at the same time with one of them writing, and when they are done the client
\* and the database come from the same connection attempt.
C23_ThreadSafe ==
  /\ ~Races
  /\ Quiet => mongo.database.client = mongo.client

\* one of the two environment variables is empty
C24_Case == environ.MONGO_URI = "" \/ environ.MONGO_DB_NAME = ""

\* C24: when MONGO_URI or MONGO_DB_NAME is empty, connect returns the error that
\* names the variable, no client is made, none is stored with its database, and
\* NewMongo returns nil.
C24_RequiredEnvironment ==
  C24_Case =>
    /\ made = 0
    /\ mongo.client = 0
    /\ mongo.database = NilDatabase
    /\ lib # "handle"
    /\ \A g \in Goroutines :
         procs[g].pc \in {"new", "return"} =>
           /\ procs[g].client = 0
           /\ procs[g].err = IF environ.MONGO_URI = "" THEN ErrURI ELSE ErrDbName

\* NewMongo returned nil for a URI without a database name
C24_Witness ==
  /\ C24_Case
  /\ environ.MONGO_URI # ""
  /\ lib = "nil"
  /\ \E g \in Goroutines : procs[g].pc = "return" /\ procs[g].err = ErrDbName

\* the errors of a connection that could not be established
ConnectionErrors == {ErrURI, ErrDbName, ErrConnect, ErrPing}

\* C25: an operation is sent to the database only after ensureConnection returned
\* nil in the same call; when it returned an error, the operation returns that
\* error and nothing was sent.
C25_EnsureFirst ==
  \A g \in Goroutines :
    procs[g].op \in DbOps =>
      /\ procs[g].pc = "issue" => procs[g].checked
      /\ procs[g].issued # NilDatabase => procs[g].checked
      /\ (procs[g].pc = "return" /\ ~procs[g].checked) =>
           procs[g].issued = NilDatabase /\ procs[g].err \in ConnectionErrors

\* an operation returned the error of a reconnect that failed, and sent nothing
C25_Witness ==
  \E g \in Goroutines :
    /\ procs[g].op \in DbOps
    /\ procs[g].pc = "return"
    /\ ~procs[g].checked
    /\ procs[g].err = ErrPing
    /\ procs[g].issued = NilDatabase
    /\ mongo.client # 0

\* goroutine g is returning from a connect that failed
FailedConnect(g) ==
  /\ procs[g].pc \in {"new", "return"}
  /\ procs[g].err \in ConnectionErrors
  /\ ~procs[g].checked

\* C30: a connect that fails stores nothing: the client it made is in neither
\* field of the handle, its failing step leaves both fields as they were, the
\* operation returns the error, and an operation whose ping fails connects again.
C30_FailedConnectStoresNothing ==
  /\ [](\A g \in Goroutines :
          (FailedConnect(g) /\ procs[g].client # 0) =>
            mongo.client # procs[g].client /\ mongo.database.client # procs[g].client)
  /\ [][\A g \in Goroutines :
          /\ (~FailedConnect(g) /\ FailedConnect(g)') =>
               mongo'.client = mongo.client /\ mongo'.database = mongo.database
          /\ (procs[g].pc = "ping" /\ procs'[g] # procs[g] /\ ~PingOk(mongo.client)) =>
               procs'[g].pc = "connect"]_vars

\* a reconnect made a second client and failed, the first client and its database
\* are still stored, and the next operation is connecting again
C30_Witness ==
  /\ made = 2
  /\ mongo.client = 1
  /\ mongo.database = Database(1, "app")
  /\ procs["g2"] = Idle
  /\ procs["g1"].op \in DbOps
  /\ procs["g1"].pc = "connect"

(***************************************************************************)
(* Claims about package auth, under AuthSpec                               *)
(***************************************************************************)
\* the last validation was given the token tok of the last pair before tok expired
ValidatedInTime(tok) ==
  /\ pair # NoPair
  /\ validation.token = tok
  /\ validation.now < 2 * tok.claims.ExpiresAt

\* the last validation returned the claims of the last pair's user info and no error
Accepted ==
  /\ validation.err = ""
  /\ validation.claims # NilClaims
  /\ validation.claims.UserInfo = pair.userInfo

\* C26: before its expiry the access token of a pair validates through
\* ValidateAccessToken and its refresh token through ValidateRefreshToken, each
\* with the user info of the pair and no error, whatever the two secrets are.
C26_BothKindsValidate ==
  /\ (validation.fn = "ValidateAccessToken" /\ ValidatedInTime(pair.access)) => Accepted
  /\ (validation.fn = "ValidateRefreshToken" /\ ValidatedInTime(pair.refresh)) => Accepted

(***************************************************************************)
(* Claims about concurrent calls, under GoSpec                             *)
(***************************************************************************)
\* the arguments of the call c
ArgumentsOf(c) ==
  [fn |-> c.fn, v |-> c.v, formats |-> c.formats, mode |-> c.mode, places |-> c.places]

\* C22: whatever the other goroutine does meanwhile, a call returns what the
\* function returns for its arguments when run alone, and the table of layouts a
\* ParseTime call consults is the table of the source, unchanged.
C22_NoSharedState ==
  \A g \in Goroutines :
    /\ calls[g].pc = "done" =>
         /\ (calls[g].outcome = "panicked") = panicsOf(ArgumentsOf(calls[g]))
         /\ calls[g].outcome = "returned" => calls[g].res = resultOf(ArgumentsOf(calls[g]))
    /\ calls[g].pc \in {"loop", "unix"} => frames[g].commonFormats = commonFormats

\* two ParseTime calls on different texts ran their loops at the same time, and the
\* first returned the instant of its own text
C22_Witness ==
  /\ calls["g1"].pc = "done"
  /\ calls["g1"].fn = "ParseTime"
  /\ calls["g1"].v.s = " 2024-10-14 "
  /\ calls["g1"].formats = <<>>
  /\ calls["g1"].res = TimeParse(TimeFormatDate, "2024-10-14").t
  /\ calls["g2"].pc = "loop"
  /\ calls["g2"].v.s = "1.5"
  /\ frames["g2"].i > 1

====
